---------------------------- MODULE Spec2Model ----------------------------
(***************************************************************************)
(* A model of the aoc2023 puzzle runner (rs/src).                          *)
(*                                                                         *)
(*   Spec       the command-line dispatcher  (main.rs)                     *)
(*   SpecDay05  the interval remapping engine (day05.rs)                   *)
(*   SpecDay04  the scratchcard game          (day04.rs)                   *)
(*   SpecDay07  the camel-card hand types     (day07.rs)                   *)
(*   SpecDay01  the calibration values        (day01.rs)                   *)
(*   SpecDay11  the expanding universe        (day11.rs)                   *)
(*   SpecDay08  the network walks, LiveDay08 with fairness (day08.rs)      *)
(*   SpecDay09  the extrapolated histories    (day09.rs)                   *)
(*   SpecDay15  the lens boxes, SpecDay15Hash the hash (day15.rs)          *)
(*   SpecDay03  the engine schematic          (day03.rs)                   *)
(*   SpecDay06  the boat races                (day06.rs)                   *)
(*   SpecRuns   several runs of the binary    (main.rs and the days)       *)
(*   SpecDay05Min  Maps::min call by call, LiveDay05Min with fairness      *)
(*                                            (day05.rs)                   *)
(*   SpecDay14  the tilts of the rock field, SpecDay14Part2 the spin       *)
(*              cycles of part2               (day14.rs)                   *)
(*   SpecDay02  the games of draws            (day02.rs)                   *)
(*   SpecDay13  the smudged reflection lines  (day13.rs)                   *)
(*   SpecDay16  the beam traversal, LiveDay16 with fairness (day16.rs)     *)
(*                                                                         *)
(* Every specification drives its own group of variables and leaves the    *)
(* other groups at their idle value.                                       *)
(***************************************************************************)
EXTENDS Integers, Sequences, FiniteSets, TLC

VARIABLES
    \* ---- main.rs
    argv,       \* the process's argument vector, program name first
    args,       \* the HashSet collected from argv (main.rs:18)
    pc,         \* 0: before line 18; i in 1..14: at the i-th `if`; 15: at Ok(())
    part,       \* 0: at the `if` test; p >= 1: about to call part p of the day
    log,        \* the calls made so far, <<day, part, outcome>>
    exit,       \* << >> while the process runs, then <<exit status>>
    \* ---- day05.rs
    maps,       \* Maps: the pipeline, a sequence of Map (each a sequence of Range)
    built,      \* how the tables were built: "parse_input" or "Map::new"
    seeds,      \* Seeds: the numbers handed to lowest_location_of_seed_ranges
    key,        \* the key handed to Map::map or Maps::map
    value,      \* << >>, or <<v>>: what the lookup of key returned
    part2,      \* << >>, or <<v>>: what lowest_location_of_seed_ranges returned
    pc5,        \* "idle", "built", "map", "maps", "part2", "panic"
    \* ---- day04.rs
    cards,      \* Game.cards: [id, copies, winning_numbers, my_numbers] each
    card_idx,   \* Game::play: the loop index (0-based)
    pc4,        \* "idle", "play", "done"
    total,      \* << >>, or <<v>>: what Game::play returned
    \* ---- day07.rs
    hand,       \* Hand: five cards, each 0..12 (Card as usize)
    default_type, \* << >>, or <<t>>: HandType::from(&DefaultHand(hand))
    joker_type, \* << >>, or <<t>>: HandType::from(&JokerHand(hand))
    pc7,        \* "idle", "parsed", "default", "joker", "panic"
    \* ---- day01.rs
    text01,     \* the input text handed to Calibrations::try_from
    part01,     \* 0, or the module that parsed the text: 1 (part1) or 2 (part2)
    calibrations, \* << >> (not parsed, or Err), or <<values>> of the lines
    sum01,      \* << >>, or <<v>>: what Calibrations::sum returned
    pc01,       \* "idle", "input", "parsed", "err", "summed"
    \* ---- day11.rs
    image,      \* the input text, as its lines (each a sequence of characters)
    galaxies,   \* Universe.galaxies: a sequence of <<x, y>>
    sum11,      \* << >>, or <<v>>: what sum_of_shortest_distance returned
    pc11,       \* "idle", "parsed", "expanded", "summed", "panic"
    \* ---- day08.rs
    instruction, \* Input.instruction: a sequence of "L" / "R"
    nodes,      \* Input.nodes: a sequence of [name, left, right], labels of 3 bytes
    label8,     \* the walk's current label (`label` of steps / multi_steps)
    steps8,     \* the walk's step counter (`steps`)
    start_idx,  \* multi_steps: the 1-based index of the starting node being walked
    counts8,    \* multi_steps: the steps collected so far, one per starting node
    part1_8,    \* << >>, or <<v>>: what steps() returned
    part2_8,    \* << >>, or <<v>>: what multi_steps() returned
    pc8,        \* "idle", "parsed", "steps", "steps_done", "steps_panic", "multi", ...
    \* ---- day09.rs
    histories,  \* Histories: a sequence of History (each a sequence of isize)
    next_values, \* << >>, or <<vs>>: next_values() as sum() computed it
    prev_values, \* << >>, or <<vs>>: next_values() of the reversed histories
    part1_9,    \* << >>, or <<v>>: what sum() returned
    part2_9,    \* << >>, or <<v>>: what reverse_sum() returned
    pc9,        \* "idle", "parsed", "part1", "part2", "panic"
    \* ---- day15.rs
    hinput,     \* Step::hash: the argument, one of the test's strings or AnyBytes
    hpos,       \* Step::hash: the bytes of a test string read so far
    hbyte,      \* Step::hash: << >>, or <<b>>: the byte `b` of the pass under way
    hash15,     \* Step::hash: the local `hash`
    hwrapped,   \* Step::hash: whether a wrapping operation has wrapped so far
    hpc,        \* "idle", "loop", "done"
    steps15,    \* Steps: a sequence of [inner, label, op]
    boxes,      \* Steps::run: the 256 boxes, 0-based, each a sequence of steps
    step_idx,   \* Steps::run: the steps processed so far
    part1_15,   \* << >>, or <<v>>: what sum_of_hashes() returned
    part2_15,   \* << >>, or <<v>>: what run() returned
    pc15,       \* "idle", "parsed", "run", "done", "unreachable"
    \* ---- day03.rs
    lines3,     \* the input's lines, each a sequence of characters
    grid,       \* Engine.grid: a sequence of rows of Cell
    pos_2_cells, \* Engine.pos_2_cells: a function from Pos to Cell
    gears,      \* << >>, or <<v>>: the Vec<Vec<usize>> that gears() returned
    part2_3,    \* << >>, or <<v>>: the sum of the gear ratios
    pc3,        \* "idle", "parsed", "gears", "done"
    \* ---- day06.rs
    races,      \* Races: a sequence of Race records
    race_idx,   \* the race num_winning_bets() is counting (0: none yet)
    hold_time,  \* the next item of the range 0..=self.time
    called6,    \* << >>, or <<h>>: the argument of the last call of distance()
    phase6,     \* the iterator chain: "skip_while", "take_while", "done"
    count6,     \* the items count() has counted so far
    counts6,    \* what Race::num_winning_bets returned, race by race
    part1_6,    \* << >>, or <<v>>: what Races::num_winning_bets returned
    pc6,        \* "idle", "parsed", "counting", "returned", "assert_failed"
    \* ---- main.rs, run after run
    embedded,   \* the include_str! inputs compiled into the binary, per day
    run_no,     \* the number of the process run under way
    run_args,   \* the HashSet of arguments of this run
    run_pc,     \* the `if` of the chain this run is at (an index of RunDays)
    run_step,   \* "if", "parsed", "computed", "panic", "exit"
    locals,     \* << >>, or the local variables of the day function under way
    answers,    \* the answers computed so far: <<run, day, answer>>
    \* ---- day05.rs, Maps::min call by call
    min_lb,     \* the lb of the outermost call of Maps::min
    min_ub,     \* the ub of the outermost call
    min_stack,  \* the calls under way, innermost first: [lb, ub, at, left]
    min_ret,    \* << >>, or <<v>>: the value the last finished call returned
    min_calls,  \* the number of calls made so far
    pcMin,      \* "idle", "built", "min", "returned", "assert_failed"
    \* ---- day14.rs
    entries,    \* Grid.entries: the rows of the grid, each a sequence of entries
    original14, \* the grid as parsed
    tilted,     \* "", or the last tilt made: "north", "west", "south", "east"
    spin_i,     \* part2: the number of spin cycles made
    loads,      \* part2: the loads pushed so far
    part1_14,   \* << >>, or <<the load part1 logs>>
    part2_14,   \* << >>, or <<the load after 1000000000 cycles>>: part2 computes none
    pc14,       \* "idle", "parsed", "tilted", "part1", "spinning", "part2", "panic"
    \* ---- day02.rs
    lines2,     \* the lines of the input, each a sequence of characters
    games2,     \* << >>, or <<the games>> once parsed without error
    part1_2,    \* << >>, or <<the sum of the possible game ids>>
    part2_2,    \* << >>, or <<the sum of the powers>>
    pc2,        \* "idle", "input", "parsed", "part1", "part2", "error"
    \* ---- day13.rs
    pattern13,  \* Pattern.grid: the rows of the pattern
    tested13,   \* << >>, or <<dir, mid, result>> of a call of is_<dir>_reflection_line_at(mid)
    vline13,    \* << >>, or <<the result of vertical_line()>>
    hline13,    \* << >>, or <<the result of horizontal_line()>>
    sum13,      \* the sum of part1_and_part2
    pc13,       \* "idle", "parsed", "tested", "vertical", "horizontal", "panic"
    \* ---- day16.rs
    grid16,     \* Grid.entries: the rows of the grid
    start16,    \* << >>, or <<row, col, dir>> of the outermost call of traverse
    pending16,  \* the calls of traverse still to be made, the next one first
    visited16,  \* Traverse.visited: a function from <<row, col>> to a set of directions
    expanded16, \* the <<row, col, dir>> that passed both returns of traverse, in order
    energized16, \* << >>, or <<the value of energized()>>
    pc16        \* "idle", "new", "traversing", "traversed", "energized"

varsMain == <<argv, args, pc, part, log, exit>>
vars05   == <<maps, built, seeds, key, value, part2, pc5>>
vars04   == <<cards, card_idx, pc4, total>>
vars07   == <<hand, default_type, joker_type, pc7>>
vars01   == <<text01, part01, calibrations, sum01, pc01>>
vars11   == <<image, galaxies, sum11, pc11>>
vars08   == <<instruction, nodes, label8, steps8, start_idx, counts8, part1_8, part2_8, pc8>>
vars09   == <<histories, next_values, prev_values, part1_9, part2_9, pc9>>
vars15   == <<hinput, hpos, hbyte, hash15, hwrapped, hpc, steps15, boxes, step_idx, part1_15, part2_15, pc15>>
vars03   == <<lines3, grid, pos_2_cells, gears, part2_3, pc3>>
vars06   == <<races, race_idx, hold_time, called6, phase6, count6, counts6, part1_6, pc6>>
varsRuns == <<embedded, run_no, run_args, run_pc, run_step, locals, answers>>
varsMin  == <<min_lb, min_ub, min_stack, min_ret, min_calls, pcMin>>
vars14   == <<entries, original14, tilted, spin_i, loads, part1_14, part2_14, pc14>>
vars02   == <<lines2, games2, part1_2, part2_2, pc2>>
vars13   == <<pattern13, tested13, vline13, hline13, sum13, pc13>>
vars16   == <<grid16, start16, pending16, visited16, expanded16, energized16, pc16>>
vars     == <<varsMain, vars05, vars04, vars07, vars01, vars11, vars08,
              vars09, vars15, vars03, vars06, varsRuns, varsMin, vars14,
              vars02, vars13, vars16>>

\* The idle value of each group: the state of a part of the program that is
\* not under study in the specification at hand.
IdleMain == /\ argv = << >> /\ args = {} /\ pc = -1 /\ part = 0
            /\ log = << >> /\ exit = << >>
Idle05   == /\ maps = << >> /\ built = "" /\ seeds = << >> /\ key = 0
            /\ value = << >> /\ part2 = << >> /\ pc5 = "idle"
Idle04   == /\ cards = << >> /\ card_idx = 0 /\ pc4 = "idle" /\ total = << >>
Idle07   == /\ hand = << >> /\ default_type = << >> /\ joker_type = << >>
            /\ pc7 = "idle"
Idle01   == /\ text01 = << >> /\ part01 = 0 /\ calibrations = << >>
            /\ sum01 = << >> /\ pc01 = "idle"
Idle11   == /\ image = << >> /\ galaxies = << >> /\ sum11 = << >> /\ pc11 = "idle"
Idle08   == /\ instruction = << >> /\ nodes = << >> /\ label8 = << >>
            /\ steps8 = 0 /\ start_idx = 0 /\ counts8 = << >>
            /\ part1_8 = << >> /\ part2_8 = << >> /\ pc8 = "idle"
Idle09   == /\ histories = << >> /\ next_values = << >> /\ prev_values = << >>
            /\ part1_9 = << >> /\ part2_9 = << >> /\ pc9 = "idle"
IdleHash15 == /\ hinput = << >> /\ hpos = 0 /\ hbyte = << >>
              /\ hash15 = 0 /\ hwrapped = FALSE /\ hpc = "idle"
IdleRun15 == /\ steps15 = << >> /\ boxes = << >> /\ step_idx = 0
             /\ part1_15 = << >> /\ part2_15 = << >> /\ pc15 = "idle"
Idle15   == IdleHash15 /\ IdleRun15
Idle03   == /\ lines3 = << >> /\ grid = << >> /\ pos_2_cells = << >>
            /\ gears = << >> /\ part2_3 = << >> /\ pc3 = "idle"
Idle06   == /\ races = << >> /\ race_idx = 0 /\ hold_time = 0 /\ called6 = << >>
            /\ phase6 = "done" /\ count6 = 0 /\ counts6 = << >>
            /\ part1_6 = << >> /\ pc6 = "idle"
IdleRuns == /\ embedded = << >> /\ run_no = 0 /\ run_args = {} /\ run_pc = 0
            /\ run_step = "idle" /\ locals = << >> /\ answers = {}
IdleMin  == /\ min_lb = 0 /\ min_ub = 0 /\ min_stack = << >> /\ min_ret = << >>
            /\ min_calls = 0 /\ pcMin = "idle"
Idle14   == /\ entries = << >> /\ original14 = << >> /\ tilted = "" /\ spin_i = 0
            /\ loads = << >> /\ part1_14 = << >> /\ part2_14 = << >> /\ pc14 = "idle"
Idle02   == /\ lines2 = << >> /\ games2 = << >> /\ part1_2 = << >> /\ part2_2 = << >>
            /\ pc2 = "idle"
Idle13   == /\ pattern13 = << >> /\ tested13 = << >> /\ vline13 = << >> /\ hline13 = << >>
            /\ sum13 = 0 /\ pc13 = "idle"
Idle16   == /\ grid16 = << >> /\ start16 = << >> /\ pending16 = << >>
            /\ visited16 = << >> /\ expanded16 = << >> /\ energized16 = << >>
            /\ pc16 = "idle"

(***************************************************************************)
(* main.rs: the dispatcher                                                 *)
(***************************************************************************)

\* The days of the `if` chain, in the order of the chain (main.rs:20-105).
Days == <<1, 2, 3, 4, 5, 6, 7, 8, 9, 10, 11, 13, 14, 15>>

\* The string each `if` looks up in the set.
DayArg(d) ==
    CASE d = 1 -> "1"   [] d = 2 -> "2"   [] d = 3 -> "3"   [] d = 4 -> "4"
      [] d = 5 -> "5"   [] d = 6 -> "6"   [] d = 7 -> "7"   [] d = 8 -> "8"
      [] d = 9 -> "9"   [] d = 10 -> "10" [] d = 11 -> "11" [] d = 13 -> "13"
      [] d = 14 -> "14" [] d = 15 -> "15"

\* The calls inside each `if`: part1 and part2 for days 1, 14 and 15,
\* part1_and_part2 for the others.
NumParts(d) == IF d \in {1, 14, 15} THEN 2 ELSE 1

KnownDays == {Days[i] : i \in DOMAIN Days}
KnownArgs == {DayArg(d) : d \in KnownDays}

\* Arguments naming no day of the chain: a day with no module, a day whose
\* module main.rs does not import, a known day spelled differently, a word.
UnknownArgs == {"12", "16", "01", "day1"}
Tokens == KnownArgs \cup UnknownArgs

MaxArgs == 2

ProgName == "aoc2023"

RECURSIVE SeqsUpTo(_, _)
SeqsUpTo(S, n) ==
    IF n = 0 THEN {<< >>}
    ELSE LET shorter == SeqsUpTo(S, n - 1)
         IN  shorter \cup {Append(s, x) : s \in {t \in shorter : Len(t) = n - 1}, x \in S}

\* env::args().skip(1).collect::<HashSet<_>>()  (main.rs:18)
CollectArgsNoSkip(v) == {v[i] : i \in 1..Len(v)}
CollectArgs(v) == {v[i] : i \in 2..Len(v)}

\* args.is_empty() || args.contains("<d>")  (main.rs:20, 27, ...)
SelectedUnknownAsNone(a, d) == a \cap KnownArgs = {} \/ DayArg(d) \in a
Selected(a, d) == a = {} \/ DayArg(d) \in a

\* What a call of a day's part can end in: Ok(()), an Err returned through `?`,
\* or a panic (a failed assert!/assert_eq!). The input files decide which.
Outcomes == {"ok", "err", "panic"}

\* The status of a process whose main returns Err, and of one that panics.
\* exit is << >> while the process runs and <<status>> once it has ended.
ExitErr == 1
ExitPanic == 101

\* The `?` after each call, and the fall through to the next statement.
AfterCallKeepGoing(i, p, o) ==
    /\ exit' = << >>
    /\ IF p < NumParts(Days[i])
       THEN pc' = i /\ part' = p + 1
       ELSE pc' = i + 1 /\ part' = 0
AfterCall(i, p, o) ==
    IF o = "ok"
    THEN /\ exit' = << >>
         /\ IF p < NumParts(Days[i])
            THEN pc' = i /\ part' = p + 1
            ELSE pc' = i + 1 /\ part' = 0
    ELSE /\ exit' = IF o = "err" THEN <<ExitErr>> ELSE <<ExitPanic>>
         /\ pc' = pc /\ part' = part

restMain == <<vars05, vars04, vars07, vars01, vars11, vars08, vars09,
              vars15, vars03, vars06, varsRuns, varsMin, vars14, vars02,
              vars13, vars16>>

InitMain ==
    /\ argv \in {<<ProgName>> \o s : s \in SeqsUpTo(Tokens, MaxArgs)}
    /\ args = {}
    /\ pc = 0
    /\ part = 0
    /\ log = << >>
    /\ exit = << >>

\* main.rs:18
Collect ==
    /\ pc = 0 /\ exit = << >>
    /\ args' = CollectArgs(argv)
    /\ pc' = 1
    /\ UNCHANGED <<argv, part, log, exit, restMain>>

\* One `if args.is_empty() || args.contains(..)` test of the chain.
TestDay ==
    /\ pc \in 1..Len(Days) /\ part = 0 /\ exit = << >>
    /\ IF Selected(args, Days[pc])
       THEN part' = 1 /\ pc' = pc
       ELSE part' = 0 /\ pc' = pc + 1
    /\ UNCHANGED <<argv, args, log, exit, restMain>>

\* One `dayNN::partK()?` call: the call runs to its end, then `?` decides.
CallPart ==
    /\ pc \in 1..Len(Days) /\ part >= 1 /\ exit = << >>
    /\ \E o \in Outcomes :
        /\ log' = Append(log, <<Days[pc], part, o>>)
        /\ AfterCall(pc, part, o)
    /\ UNCHANGED <<argv, args, restMain>>

\* main.rs:107
ReturnOk ==
    /\ pc = Len(Days) + 1 /\ exit = << >>
    /\ exit' = <<0>>
    /\ UNCHANGED <<argv, args, pc, part, log, restMain>>

Init == InitMain /\ Idle05 /\ Idle04 /\ Idle07 /\ Idle01 /\ Idle11
        /\ Idle08 /\ Idle09 /\ Idle15 /\ Idle03 /\ Idle06 /\ IdleRuns
        /\ IdleMin /\ Idle14 /\ Idle02 /\ Idle13 /\ Idle16
Next == Collect \/ TestDay \/ CallPart \/ ReturnOk
Spec == Init /\ [][Next]_vars

(***************************************************************************)
(* Claims about the dispatcher                                             *)
(***************************************************************************)

\* What the command line asks for, read off argv itself: every known day when
\* there is no argument, else the known days named by some argument.
Requested ==
    IF Len(argv) = 1 THEN KnownDays
    ELSE {d \in KnownDays : \E i \in 2..Len(argv) : argv[i] = DayArg(d)}

LogDays == {log[i][1] : i \in DOMAIN log}

\* C1: the calls made are those of the requested days only, in strictly
\* ascending day order with the parts of one day in order and next to each
\* other (a day's last part is called before the next day's first), no call is
\* made twice, and a run that ends with Ok(()) has called every part of every
\* requested day; with no argument these are days 1..11, 13, 14, 15.
C1_DispatchOrder ==
    /\ LogDays \subseteq Requested
    /\ \A i, j \in DOMAIN log :
          i < j => \/ log[i][1] < log[j][1]
                   \/ log[i][1] = log[j][1] /\ log[i][2] < log[j][2]
    /\ log # << >> => log[1][2] = 1
    /\ \A i \in 1..(Len(log) - 1) :
          IF log[i + 1][1] = log[i][1]
          THEN log[i + 1][2] = log[i][2] + 1
          ELSE log[i][2] = NumParts(log[i][1]) /\ log[i + 1][2] = 1
    /\ exit = <<0>> =>
          /\ LogDays = Requested
          /\ log # << >> => log[Len(log)][2] = NumParts(log[Len(log)][1])
          /\ Len(argv) = 1 =>
                LogDays = {1, 2, 3, 4, 5, 6, 7, 8, 9, 10, 11, 13, 14, 15}

\* Arguments out of order: day 14 named before day 2, both run, 2 first.
C1_Witness ==
    /\ exit = <<0>>
    /\ argv = <<ProgName, "14", "2">>
    /\ log = <<<<2, 1, "ok">>, <<14, 1, "ok">>, <<14, 2, "ok">>>>

ArgsGiven == {argv[i] : i \in 2..Len(argv)}
AllUnknown == ArgsGiven # {} /\ ArgsGiven \cap KnownArgs = {}

\* C2: a day is called only when there is no argument at all or an argument
\* is that day's own identifier; a non-zero exit status only ever follows a
\* failed call of a day; and when there are arguments and none names a known
\* day, no call is made, the run is never stuck and the only exit status it
\* can end with is 0.
C2_UnknownIgnored ==
    /\ \A i \in DOMAIN log : Len(argv) = 1 \/ DayArg(log[i][1]) \in ArgsGiven
    /\ (exit # << >> /\ exit # <<0>>) =>
          (log # << >> /\ log[Len(log)][3] # "ok")
    /\ AllUnknown =>
          /\ log = << >>
          /\ exit \in {<< >>, <<0>>}
          /\ exit = << >> => ENABLED Next
          /\ pc = Len(Days) + 1 => ENABLED ReturnOk \/ exit = <<0>>

C2_Witness ==
    /\ argv = <<ProgName, "12", "day1">>
    /\ exit = <<0>>
    /\ log = << >>

HasFailed == \E i \in DOMAIN log : log[i][3] # "ok"

\* C3: a failed call is the last call of the run (nothing of that day or of a
\* later day is called after it), the process has then ended with a non-zero
\* status (1 for a returned error, 101 for a panic), and a run in which no
\* call failed can only end with status 0, after the last `if`.
C3_FailureStops ==
    /\ \A i \in DOMAIN log : log[i][3] # "ok" => i = Len(log)
    /\ HasFailed =>
          /\ exit = IF log[Len(log)][3] = "err" THEN <<ExitErr>> ELSE <<ExitPanic>>
          /\ exit[1] # 0
          /\ ~ ENABLED Next
    /\ ~ HasFailed => exit \in {<< >>, <<0>>}
    /\ exit = <<0>> => ~ HasFailed /\ pc = Len(Days) + 1

\* Days 1 and 15 requested, part1 of day 1 panics: part2 of day 1 and day 15
\* are never called.
C3_Witness ==
    /\ argv = <<ProgName, "15", "1">>
    /\ log = <<<<1, 1, "panic">>>>
    /\ exit = <<ExitPanic>>

(***************************************************************************)
(* day05.rs: the interval remapping engine                                 *)
(***************************************************************************)

Range(s, d, l) == [src |-> s, dst |-> d, len |-> l]

\* #[derive(PartialOrd, Ord)] on Range: src, then dst, then len.
RangeLe(a, b) ==
    \/ a.src < b.src
    \/ a.src = b.src /\ a.dst < b.dst
    \/ a.src = b.src /\ a.dst = b.dst /\ a.len <= b.len

\* Range::contains
RangeContains(r, k) == r.src <= k /\ k < r.src + r.len

\* Range::map (callers hand it a key the range contains)
RangeMap(r, k) == r.dst + (k - r.src)

\* Map::map: the binary search over self.ranges; lb and ub are 0-based.
RECURSIVE MapSearch(_, _, _, _)
MapSearch(ranges, k, lb, ub) ==
    IF lb < ub
    THEN LET mid == (lb + ub) \div 2
             range == ranges[mid + 1]
         IN  IF RangeContains(range, k) THEN RangeMap(range, k)
             ELSE IF k < range.src THEN MapSearch(ranges, k, lb, mid)
             ELSE MapSearch(ranges, k, mid + 1, ub)
    ELSE k

MapMap(ranges, k) == MapSearch(ranges, k, 0, Len(ranges))

\* Maps::map: self.0.iter().fold(key, |acc, map| map.map(acc))
RECURSIVE MapsFold(_, _, _)
MapsFold(ms, i, a) ==
    IF i > Len(ms) THEN a ELSE MapsFold(ms, i + 1, MapMap(ms[i], a))

RECURSIVE MapsFoldRev(_, _, _)
MapsFoldRev(ms, i, a) ==
    IF i < 1 THEN a ELSE MapsFoldRev(ms, i - 1, MapMap(ms[i], a))

MapsMapLastFirst(ms, k) == MapsFoldRev(ms, Len(ms), k)
MapsMap(ms, k) == MapsFold(ms, 1, k)

\* Maps::min, for lb < ub (the assertion of line 127 is checked by the caller
\* below; the recursive calls keep lb < mid < ub).
RECURSIVE MapsMinSplit(_, _, _)
MapsMinSplit(ms, lb, ub) ==
    IF lb + 1 = ub THEN MapsMap(ms, lb)
    ELSE LET mid == (lb + ub) \div 2
             l == MapsMinSplit(ms, lb, mid)
             r == MapsMinSplit(ms, mid, ub)
         IN  IF l <= r THEN l ELSE r

RECURSIVE MapsMin(_, _, _)
MapsMin(ms, lb, ub) ==
    IF lb + 1 = ub THEN MapsMap(ms, lb)
    ELSE LET len == ub - lb
             value_lb == MapsMap(ms, lb)
             value_ub == MapsMap(ms, ub - 1)
         IN  IF value_ub > value_lb /\ value_ub - value_lb = len - 1
             THEN value_lb
             ELSE LET mid == (lb + ub) \div 2
                      l == MapsMin(ms, lb, mid)
                      r == MapsMin(ms, mid, ub)
                  IN  IF l <= r THEN l ELSE r

\* Stands for usize::MAX, the fold's start value: above every value of the model.
UsizeMax == 2147483647

\* Input::lowest_location_of_seed_ranges: chunks_exact(2), Maps::min of each
\* chunk, folded with usize::min. i is the 1-based index of a chunk's start.
RECURSIVE SeedRangesFold(_, _, _, _)
SeedRangesFold(ms, sd, i, a) ==
    IF i + 1 > Len(sd) THEN a
    ELSE LET m == MapsMin(ms, sd[i], sd[i] + sd[i + 1])
         IN  SeedRangesFold(ms, sd, i + 2, IF a <= m THEN a ELSE m)

LowestLocationOfSeedRanges(ms, sd) == SeedRangesFold(ms, sd, 1, UsizeMax)

\* assert!(lb < ub) at the entry of Maps::min fails for a chunk of length 0.
SeedRangesPanics(sd) == \E i \in 1..(Len(sd) \div 2) : sd[2 * i] = 0

\* map.sort() of parse_input: an insertion sort by the derived order.
RECURSIVE InsertRange(_, _)
InsertRange(sorted, r) ==
    IF sorted = << >> THEN <<r>>
    ELSE IF RangeLe(r, Head(sorted)) THEN <<r>> \o sorted
    ELSE <<Head(sorted)>> \o InsertRange(Tail(sorted), r)

RECURSIVE SortRanges(_)
SortRanges(raw) ==
    IF raw = << >> THEN << >>
    ELSE InsertRange(SortRanges(Tail(raw)), Head(raw))

\* parse_input, one section: the ranges in file order, sorted, then Map::new.
ParseSection(raw) == SortRanges(raw)

\* Map::new keeps the vector it is given.
MapNew(ranges) == ranges

ParseMaps(rawMaps) == [i \in DOMAIN rawMaps |-> MapNew(ParseSection(rawMaps[i]))]

\* ---- the inputs

MaxKey == 1
MaxRanges == 2

\* Small ranges: source and destination intervals inside 0..MaxKey+1, the
\* empty range (len 0, which parse_map accepts) included.
GenericRanges ==
    {Range(s, d, l) : s \in 0..MaxKey, d \in 0..MaxKey, l \in 0..(MaxKey + 1)}
    \cap {r \in [src : 0..MaxKey, dst : 0..MaxKey, len : 0..(MaxKey + 1)] :
            r.src + r.len <= MaxKey + 1 /\ r.dst + r.len <= MaxKey + 1}

\* The sections of an input file, in file order: the ranges of the file in
\* one list, cut into sections after the positions of cuts. Every section holds
\* at least one range (separated_list1).
RECURSIVE SplitSections(_, _, _, _)
SplitSections(flat, cuts, i, cur) ==
    IF i > Len(flat) THEN <<cur>>
    ELSE IF (i - 1) \in cuts
         THEN <<cur>> \o SplitSections(flat, cuts, i + 1, <<flat[i]>>)
         ELSE SplitSections(flat, cuts, i + 1, Append(cur, flat[i]))

RawPipeline(flat, cuts) ==
    IF flat = << >> THEN << >> ELSE SplitSections(flat, cuts, 2, <<flat[1]>>)

\* The first section of the sample, in file order ("50 98 2", "52 50 48").
SeedToSoilRaw == <<Range(98, 50, 2), Range(50, 52, 48)>>

\* The numbers the sample test looks up, and the seeds of the sample.
SampleKeys == {13, 14, 49, 50, 55, 79, 97, 98, 99, 100}
SampleSeeds == <<79, 14, 55, 13>>

\* tests::test_that_breaks_day5_part2_algo
BreakingRaw ==
    << <<Range(0, 100, 100)>>,
       <<Range(100, 100, 50), Range(150, 0, 20), Range(170, 170, 30)>> >>
BreakingMaps == [i \in DOMAIN BreakingRaw |-> MapNew(BreakingRaw[i])]
BreakingKeys == {0, 50, 69, 70, 99, 100}
BreakingSeeds == <<0, 100>>

SeedToSoilMaps == ParseMaps(<<SeedToSoilRaw>>)

\* The keys looked up in a pipeline, and the seed lists tried on it.
TestKeys(ms) ==
    IF ms = BreakingMaps THEN BreakingKeys
    ELSE IF ms = SeedToSoilMaps THEN SampleKeys
    ELSE 0..(MaxKey + 1)

TestSeeds(ms) ==
    IF ms = BreakingMaps THEN {BreakingSeeds}
    ELSE IF ms = SeedToSoilMaps THEN {SampleSeeds}
    ELSE UNION {{<<s, l>> : l \in 1..(MaxKey + 2 - s)} : s \in 0..MaxKey}
         \cup {<<0, 0>>, <<MaxKey, 1, 0, 1>>}

rest05 == <<varsMain, vars04, vars07, vars01, vars11, vars08, vars09,
            vars15, vars03, vars06, varsRuns, varsMin, vars14, vars02,
            vars13, vars16>>

Init05 ==
    /\ \/ \E k \in 0..MaxRanges : \E flat \in [1..k -> GenericRanges] :
             \E cuts \in SUBSET (1..(k - 1)) :
                /\ maps = ParseMaps(RawPipeline(flat, cuts))
                /\ built = "parse_input"
       \/ maps = SeedToSoilMaps /\ built = "parse_input"
       \/ maps = BreakingMaps /\ built = "Map::new"
    /\ seeds = << >>
    /\ key = 0
    /\ value = << >>
    /\ part2 = << >>
    /\ pc5 = "built"

\* maps.0[0].map(key), as tests::test_with_sample calls it
MapKey ==
    /\ pc5 = "built" /\ Len(maps) >= 1
    /\ \E k \in TestKeys(maps) :
        /\ key' = k
        /\ value' = <<MapMap(maps[1], k)>>
    /\ pc5' = "map"
    /\ UNCHANGED <<maps, built, seeds, part2, rest05>>

\* maps.map(key)
MapsKey ==
    /\ pc5 = "built"
    /\ \E k \in TestKeys(maps) :
        /\ key' = k
        /\ value' = <<MapsMap(maps, k)>>
    /\ pc5' = "maps"
    /\ UNCHANGED <<maps, built, seeds, part2, rest05>>

\* Input(seeds, maps).lowest_location_of_seed_ranges()
SeedRanges ==
    /\ pc5 = "built"
    /\ \E sd \in TestSeeds(maps) :
        /\ seeds' = sd
        /\ IF SeedRangesPanics(sd)
           THEN part2' = << >> /\ pc5' = "panic"
           ELSE part2' = <<LowestLocationOfSeedRanges(maps, sd)>> /\ pc5' = "part2"
    /\ UNCHANGED <<maps, built, key, value, rest05>>

InitDay05 == Init05 /\ IdleMain /\ Idle04 /\ Idle07 /\ Idle01 /\ Idle11
             /\ Idle08 /\ Idle09 /\ Idle15 /\ Idle03 /\ Idle06 /\ IdleRuns
             /\ IdleMin /\ Idle14 /\ Idle02 /\ Idle13 /\ Idle16
NextDay05 == MapKey \/ MapsKey \/ SeedRanges
SpecDay05 == InitDay05 /\ [][NextDay05]_vars


(***************************************************************************)
(* Claims about the interval remapping engine                              *)
(***************************************************************************)

SortedBySrc(t) == \A i \in 1..(Len(t) - 1) : t[i].src <= t[i + 1].src

\* Two ranges overlap when some key lies in both [src, src+len) intervals.
Overlap(a, b) ==
    \E k \in a.src..(a.src + a.len - 1) : b.src <= k /\ k < b.src + b.len

PairwiseDisjoint(t) ==
    \A i, j \in DOMAIN t : i # j => ~ Overlap(t[i], t[j])

\* The lookup by a linear scan: the first range holding the key decides.
LinearScan(t, k) ==
    LET hits == {i \in DOMAIN t : t[i].src <= k /\ k < t[i].src + t[i].len}
    IN  IF hits = {} THEN k
        ELSE LET i == CHOOSE x \in hits : \A y \in hits : x <= y
             IN  t[i].dst + (k - t[i].src)

\* C4: on a table sorted by src with pairwise disjoint intervals, Map::map
\* returns what a linear scan returns: dst + (key - src) of the range holding
\* the key, the key itself when no range holds it.
C4_LookupIsLinearScan ==
    (pc5 = "map" /\ SortedBySrc(maps[1]) /\ PairwiseDisjoint(maps[1]))
        => value = <<LinearScan(maps[1], key)>>

\* The least value of Maps::map over the keys of [lb, ub).
TrueMin(ms, lb, ub) ==
    LET vals == {MapsMap(ms, k) : k \in lb..(ub - 1)}
    IN  CHOOSE m \in vals : \A v \in vals : m <= v

TrueMinOfSeedRanges(ms, sd) ==
    LET mins == {TrueMin(ms, sd[2 * i - 1], sd[2 * i - 1] + sd[2 * i]) :
                    i \in 1..(Len(sd) \div 2)}
    IN  CHOOSE m \in mins : \A v \in mins : m <= v

\* C5: lowest_location_of_seed_ranges returns the least value of Maps::map
\* over all the keys of all the seed ranges.
C5_MinIsTrueMinimum ==
    pc5 = "part2" => part2 = <<TrueMinOfSeedRanges(maps, seeds)>>

\* C6: on the pipeline of test_that_breaks_day5_part2_algo with the seed range
\* (0, 100), lowest_location_of_seed_ranges returns 100, while key 50 maps to
\* 0 and 0 is the least value over [0, 100).
C6_DocumentedCounterExample ==
    /\ (pc5 = "part2" /\ maps = BreakingMaps /\ seeds = BreakingSeeds) =>
          /\ part2 = <<100>>
          /\ TrueMin(maps, 0, 100) = 0
    /\ (pc5 = "maps" /\ maps = BreakingMaps /\ key = 50) => value = <<0>>

C6_Witness ==
    /\ pc5 = "part2" /\ built = "Map::new"
    /\ maps = BreakingMaps /\ seeds = <<0, 100>>
    /\ part2 = <<100>>

\* C7: whenever a lookup has been made, every table of the pipeline is in
\* ascending src order and its intervals are pairwise disjoint.
C7_TablesSortedDisjoint ==
    pc5 \in {"map", "maps", "part2"} =>
        \A t \in DOMAIN maps : SortedBySrc(maps[t]) /\ PairwiseDisjoint(maps[t])

\* t_n(... t_2(t_1(k)) ...), from the outermost table inwards.
RECURSIVE Compose(_, _, _)
Compose(ms, n, k) ==
    IF n = 0 THEN k ELSE MapMap(ms[n], Compose(ms, n - 1, k))

\* C8: Maps::map returns the lookups composed in list order, first table
\* first, and a table none of whose ranges holds the value it is handed hands
\* that value on unchanged.
C8_PipelineComposition ==
    pc5 = "maps" =>
        /\ value = <<Compose(maps, Len(maps), key)>>
        /\ \A i \in DOMAIN maps :
              LET a == Compose(maps, i - 1, key)
              IN  (\A j \in DOMAIN maps[i] : ~ RangeContains(maps[i][j], a))
                      => Compose(maps, i, key) = a

\* Key 50 goes to 150 in the first table and from there to 0 in the second;
\* the tables taken in the other order would give 150.
C8_Witness ==
    /\ pc5 = "maps" /\ maps = BreakingMaps /\ key = 50
    /\ value = <<0>>
    /\ MapMap(maps[1], MapMap(maps[2], 50)) = 150


(***************************************************************************)
(* day04.rs: the scratchcard game                                          *)
(***************************************************************************)

MaxCards == 3
MaxMatch == 2

\* parse_card: the id as written, copies 1, the two number lists as sets.
ParseCard(id, winning, mine) ==
    [id |-> id, copies |-> 1, winning_numbers |-> winning, my_numbers |-> mine]

\* Card::num_matching
NumMatching(card) == Cardinality(card.winning_numbers \cap card.my_numbers)

\* The card lines tried: any id 0..MaxCards+1 (a line may carry any number),
\* the winning numbers 1..MaxMatch, and my numbers 0 (which never wins) with
\* the first n winning numbers, n in 0..MaxMatch.
CardLines ==
    {ParseCard(id, 1..MaxMatch, 0..n) : id \in 0..(MaxCards + 1), n \in 0..MaxMatch}

\* One pass of the loop body of Game::play for the card at 0-based index i:
\* self.cards.iter_mut().skip(id).take(num_matching), copies added to each.
PlayCard(cs, i) ==
    LET card == cs[i + 1]
        n == NumMatching(card)
    IN  [j \in DOMAIN cs |->
            IF card.id < j /\ j <= card.id + n
            THEN [cs[j] EXCEPT !.copies = @ + card.copies]
            ELSE cs[j]]

\* self.cards.iter().map(|c| c.copies).sum()
RECURSIVE SumCopies(_, _)
SumCopies(cs, n) == IF n = 0 THEN 0 ELSE SumCopies(cs, n - 1) + cs[n].copies

rest04 == <<varsMain, vars05, vars07, vars01, vars11, vars08, vars09,
            vars15, vars03, vars06, varsRuns, varsMin, vars14, vars02,
            vars13, vars16>>

Init04 ==
    /\ \E n \in 0..MaxCards : cards \in [1..n -> CardLines]
    /\ card_idx = 0
    /\ pc4 = "play"
    /\ total = << >>

\* for card_idx in 0..self.cards.len() { .. }
PlayStep ==
    /\ pc4 = "play" /\ card_idx < Len(cards)
    /\ cards' = PlayCard(cards, card_idx)
    /\ card_idx' = card_idx + 1
    /\ UNCHANGED <<pc4, total, rest04>>

PlayReturn ==
    /\ pc4 = "play" /\ card_idx = Len(cards)
    /\ total' = <<SumCopies(cards, Len(cards))>>
    /\ pc4' = "done"
    /\ UNCHANGED <<cards, card_idx, rest04>>

InitDay04 == Init04 /\ IdleMain /\ Idle05 /\ Idle07 /\ Idle01 /\ Idle11
             /\ Idle08 /\ Idle09 /\ Idle15 /\ Idle03 /\ Idle06 /\ IdleRuns
             /\ IdleMin /\ Idle14 /\ Idle02 /\ Idle13 /\ Idle16
NextDay04 == PlayStep \/ PlayReturn
SpecDay04 == InitDay04 /\ [][NextDay04]_vars

(***************************************************************************)
(* Claims about the scratchcard game                                       *)
(***************************************************************************)

\* The cascade by list position: the copies after the cards at positions
\* 1..k have been processed, each adding its copies to the next n cards.
RECURSIVE CascadeCopies(_, _)
CascadeCopies(cs, k) ==
    IF k = 0 THEN [j \in DOMAIN cs |-> 1]
    ELSE LET before == CascadeCopies(cs, k - 1)
             n == Cardinality(cs[k].winning_numbers \cap cs[k].my_numbers)
         IN  [j \in DOMAIN cs |->
                IF k < j /\ j <= k + n THEN before[j] + before[k] ELSE before[j]]

RECURSIVE SumSeq(_, _)
SumSeq(f, n) == IF n = 0 THEN 0 ELSE SumSeq(f, n - 1) + f[n]

\* C9: after the cards at positions 1..card_idx have been processed, every
\* card holds the copies the cascade by list position gives it (1 to start
\* with, plus the copies of each earlier card that reaches it), and play()
\* returns the sum of all copies.
C9_CascadeByPosition ==
    /\ pc4 \in {"play", "done"} =>
          \A j \in DOMAIN cards : cards[j].copies = CascadeCopies(cards, card_idx)[j]
    /\ pc4 = "done" =>
          total = <<SumSeq(CascadeCopies(cards, Len(cards)), Len(cards))>>


(***************************************************************************)
(* day07.rs: the camel-card hand types                                     *)
(***************************************************************************)

\* enum Card, as usize
Two == 0
J == 9
Q == 10
A == 12
NUM_CARDS == 13

\* struct Hand([Card; 5])
HandLen == 5

\* enum HandType, in its derived order
HighCard == 0
OnePair == 1
TwoPairs == 2
ThreeOfAKind == 3
FullHouse == 4
FourOfAKind == 5
FiveOfAKind == 6

CardIdx == 0..(NUM_CARDS - 1)

\* counts.iter().filter(|&&count| count == n).count()
NumWithCount(counts, n) == Cardinality({c \in CardIdx : counts[c] = n})

\* counts.iter().any(|&count| count == n)
AnyCount(counts, n) == \E c \in CardIdx : counts[c] = n

\* impl From<[usize; 13]> for HandType: the branch taken ...
HandTypeOfCounts(counts) ==
    IF AnyCount(counts, 5) THEN FiveOfAKind
    ELSE IF AnyCount(counts, 4) THEN FourOfAKind
    ELSE IF AnyCount(counts, 3) /\ AnyCount(counts, 2) THEN FullHouse
    ELSE IF AnyCount(counts, 3) THEN ThreeOfAKind
    ELSE IF NumWithCount(counts, 2) = 2 THEN TwoPairs
    ELSE IF AnyCount(counts, 2) THEN OnePair
    ELSE HighCard

\* ... and whether the assert! of that branch fails.
HandTypeAssertFails(counts) ==
    IF AnyCount(counts, 5) THEN FALSE
    ELSE IF AnyCount(counts, 4) THEN NumWithCount(counts, 4) # 1
    ELSE IF AnyCount(counts, 3) /\ AnyCount(counts, 2) THEN FALSE
    ELSE IF AnyCount(counts, 3) THEN NumWithCount(counts, 1) # 2
    ELSE IF NumWithCount(counts, 2) = 2 THEN NumWithCount(counts, 1) # 1
    ELSE IF AnyCount(counts, 2) THEN NumWithCount(counts, 1) # 3
    ELSE NumWithCount(counts, 1) # 5

\* The fold of both From<&..Hand> impls: counts[*card as usize] += 1
CardCountsButLast(h) ==
    [c \in CardIdx |-> Cardinality({i \in DOMAIN h \ {Len(h)} : h[i] = c})]
CardCounts(h) ==
    [c \in CardIdx |-> Cardinality({i \in DOMAIN h : h[i] = c})]

\* counts.iter_mut().max(): of several equal maxima Iterator::max gives the last.
LastMaxIdx(counts) ==
    CHOOSE c \in CardIdx :
        /\ \A d \in CardIdx : counts[d] <= counts[c]
        /\ \A d \in CardIdx : d > c => counts[d] < counts[c]

\* impl From<&JokerHand> for HandType, up to counts.into()
JokerCountsKeepJ(h) ==
    LET counts == CardCounts(h)
        m == LastMaxIdx(counts)
    IN  [counts EXCEPT ![m] = @ + counts[J]]
JokerCounts(h) ==
    LET counts == CardCounts(h)
        jokers_count == counts[J]
        removed == [counts EXCEPT ![J] = 0]
        m == LastMaxIdx(removed)
    IN  [removed EXCEPT ![m] = @ + jokers_count]

\* The ranks hands are drawn from: the MaxLow + 1 lowest, and J, Q, A.
MaxLow == 2
HandCards == (Two..MaxLow) \cup {J, Q, A}

rest07 == <<varsMain, vars05, vars04, vars01, vars11, vars08, vars09,
            vars15, vars03, vars06, varsRuns, varsMin, vars14, vars02,
            vars13, vars16>>

Init07 ==
    /\ hand \in [1..HandLen -> HandCards]
    /\ default_type = << >>
    /\ joker_type = << >>
    /\ pc7 = "parsed"

\* HandType::from(&DefaultHand(hand)), as Games::winnings compares hands
TypeDefault ==
    /\ pc7 = "parsed"
    /\ IF HandTypeAssertFails(CardCounts(hand))
       THEN default_type' = << >> /\ pc7' = "panic"
       ELSE default_type' = <<HandTypeOfCounts(CardCounts(hand))>> /\ pc7' = "default"
    /\ UNCHANGED <<hand, joker_type, rest07>>

\* HandType::from(&JokerHand(hand)), as Games::winnings_with_joker compares hands
TypeJoker ==
    /\ pc7 = "default"
    /\ IF HandTypeAssertFails(JokerCounts(hand))
       THEN joker_type' = << >> /\ pc7' = "panic"
       ELSE joker_type' = <<HandTypeOfCounts(JokerCounts(hand))>> /\ pc7' = "joker"
    /\ UNCHANGED <<hand, default_type, rest07>>

InitDay07 == Init07 /\ IdleMain /\ Idle05 /\ Idle04 /\ Idle01 /\ Idle11
             /\ Idle08 /\ Idle09 /\ Idle15 /\ Idle03 /\ Idle06 /\ IdleRuns
             /\ IdleMin /\ Idle14 /\ Idle02 /\ Idle13 /\ Idle16
NextDay07 == TypeDefault \/ TypeJoker
SpecDay07 == InitDay07 /\ [][NextDay07]_vars

(***************************************************************************)
(* Claims about the hand types                                             *)
(***************************************************************************)

NonJ == CardIdx \ {J}

\* The non-J ranks no other non-J rank of the hand is more frequent than.
MostFrequentNonJ(h) ==
    {r \in NonJ : \A q \in NonJ : CardCounts(h)[q] <= CardCounts(h)[r]}

\* The counts of the hand with its J cards taken out and their number added
\* to rank r.
JokersJoin(h, r) ==
    [c \in CardIdx |->
        IF c = J THEN 0
        ELSE IF c = r THEN CardCounts(h)[c] + CardCounts(h)[J]
        ELSE CardCounts(h)[c]]

\* C10: the type under the joker rule is the type of the counts in which the
\* J cards have joined a most frequent non-J rank (whichever of several), it
\* is never lower than the type under the plain rule, and QJJQ2 is four of a
\* kind under the joker rule and two pairs under the plain rule.
C10_JokerHandType ==
    pc7 = "joker" =>
        /\ \A r \in MostFrequentNonJ(hand) :
              joker_type = <<HandTypeOfCounts(JokersJoin(hand, r))>>
        /\ joker_type[1] >= default_type[1]
        /\ hand = <<Q, J, J, Q, Two>> =>
              joker_type = <<FourOfAKind>> /\ default_type = <<TwoPairs>>

C10_Witness ==
    /\ pc7 = "joker"
    /\ hand = <<Q, J, J, Q, Two>>
    /\ joker_type = <<FourOfAKind>>
    /\ default_type = <<TwoPairs>>

(***************************************************************************)
(* day01.rs: the calibration values                                        *)
(***************************************************************************)

\* A text is a sequence of bytes, each written as a one-character string.

\* u8::is_ascii_digit and (value[0] - b'0') as u32
AsciiDigits == <<"0", "1", "2", "3", "4", "5", "6", "7", "8", "9">>
IsAsciiDigit(b) == \E v \in DOMAIN AsciiDigits : AsciiDigits[v] = b
DigitOfByte(b) == (CHOOSE v \in DOMAIN AsciiDigits : AsciiDigits[v] = b) - 1

\* static ZERO_TO_NINE of part2::Digit::try_from, in table order
ZERO_TO_NINE ==
    << <<0, <<"z", "e", "r", "o">>>>,
       <<1, <<"o", "n", "e">>>>,
       <<2, <<"t", "w", "o">>>>,
       <<3, <<"t", "h", "r", "e", "e">>>>,
       <<4, <<"f", "o", "u", "r">>>>,
       <<5, <<"f", "i", "v", "e">>>>,
       <<6, <<"s", "i", "x">>>>,
       <<7, <<"s", "e", "v", "e", "n">>>>,
       <<8, <<"e", "i", "g", "h", "t">>>>,
       <<9, <<"n", "i", "n", "e">>>> >>

\* <[u8]>::starts_with
StartsWith(slice, d) ==
    Len(d) <= Len(slice) /\ SubSeq(slice, 1, Len(d)) = d

\* part1::Digit::try_from and part2::Digit::try_from, on a non-empty slice:
\* << >> for Err, <<d>> for Ok(Digit(d)). find_map takes the first table entry
\* the slice starts with.
DigitTryFrom(p, slice) ==
    IF IsAsciiDigit(slice[1]) THEN <<DigitOfByte(slice[1])>>
    ELSE IF p = 1 THEN << >>
    ELSE LET hits == {k \in DOMAIN ZERO_TO_NINE : StartsWith(slice, ZERO_TO_NINE[k][2])}
         IN  IF hits = {} THEN << >>
             ELSE LET k == CHOOSE x \in hits : \A y \in hits : x <= y
                  IN  <<ZERO_TO_NINE[k][1]>>

\* (0..bytes.len()).flat_map(|i| bytes[i..].try_into().ok()).collect(), from
\* the 0-based position i on.
RECURSIVE DigitsFrom(_, _, _)
DigitsFrom(p, bytes, i) ==
    IF i >= Len(bytes) THEN << >>
    ELSE DigitTryFrom(p, SubSeq(bytes, i + 1, Len(bytes))) \o DigitsFrom(p, bytes, i + 1)

\* A scan that goes on after the end of a word it has found, not at the next byte.
RECURSIVE DigitsSkippingWords(_, _, _)
DigitsSkippingWords(p, bytes, i) ==
    IF i >= Len(bytes) THEN << >>
    ELSE LET slice == SubSeq(bytes, i + 1, Len(bytes))
             d == DigitTryFrom(p, slice)
             hits == {k \in DOMAIN ZERO_TO_NINE : StartsWith(slice, ZERO_TO_NINE[k][2])}
             step == IF d = << >> \/ IsAsciiDigit(slice[1]) THEN 1
                     ELSE Len(ZERO_TO_NINE[CHOOSE x \in hits : \A y \in hits : x <= y][2])
         IN  d \o DigitsSkippingWords(p, bytes, i + step)

CalibrationDigitsNoOverlap(p, line) == DigitsSkippingWords(p, line, 0)
CalibrationDigits(p, line) == DigitsFrom(p, line, 0)

\* Calibration::try_from, the match on digits.as_slice(): << >> for the bail!
CalibrationValue(digits) ==
    IF Len(digits) = 1 THEN <<digits[1] * 10 + digits[1]>>
    ELSE IF Len(digits) >= 2 THEN <<digits[1] * 10 + digits[Len(digits)]>>
    ELSE << >>

CalibrationTryFrom(p, line) == CalibrationValue(CalibrationDigits(p, line))

\* str::lines: the text cut at every "\n"; a last line without "\n" counts, an
\* empty rest after the last "\n" does not.
RECURSIVE StrLines(_, _)
StrLines(s, cur) ==
    IF s = << >> THEN (IF cur = << >> THEN << >> ELSE <<cur>>)
    ELSE IF Head(s) = "\n" THEN <<cur>> \o StrLines(Tail(s), << >>)
    ELSE StrLines(Tail(s), Append(cur, Head(s)))

\* Calibrations::try_from: collect::<Result<Vec<_>>>() gives Err as soon as
\* one line gives Err. << >> for Err, <<values>> for Ok.
CalibrationsTryFrom(p, s) ==
    LET lines == StrLines(s, << >>)
        cals == [i \in DOMAIN lines |-> CalibrationTryFrom(p, lines[i])]
    IN  IF \E i \in DOMAIN cals : cals[i] = << >> THEN << >>
        ELSE << [i \in DOMAIN cals |-> cals[i][1]] >>

\* Calibrations::sum
RECURSIVE CalibrationsSum(_, _)
CalibrationsSum(vals, n) ==
    IF n = 0 THEN 0 ELSE CalibrationsSum(vals, n - 1) + vals[n]

\* ---- the inputs

\* Lines are made of at most MaxPieces pieces: digits, letters, digit words and
\* parts of digit words that join into words sharing a letter.
MaxPieces == 2

Pieces ==
    { <<"1">>, <<"0">>, <<"7">>, <<"x">>, <<"t">>,
      ZERO_TO_NINE[1][2], ZERO_TO_NINE[2][2], ZERO_TO_NINE[3][2],
      <<"i", "g", "h", "t">>, <<"e", "i", "g", "h">>, <<"w", "o">>,
      <<"h", "r", "e", "e">> }

RECURSIVE Concat(_)
Concat(ps) == IF ps = << >> THEN << >> ELSE Head(ps) \o Concat(Tail(ps))

Eightwothree == <<"e", "i", "g", "h", "t", "w", "o", "t", "h", "r", "e", "e">>
Oneight == <<"o", "n", "e", "i", "g", "h", "t">>

\* The lines quoted in the description of the puzzle's contract.
QuotedLines ==
    { <<"a", "1", "b", "2", "c", "3", "d", "4", "e", "5", "f">>,
      <<"t", "w", "o", "1", "n", "i", "n", "e">>,
      Eightwothree, Oneight }

\* The lines a text may hold before and after the line under study.
OtherLines == { << >>, <<"1", "2", "\n">>, <<"x", "\n">>, <<"\n">> }

rest01 == <<varsMain, vars05, vars04, vars07, vars11, vars08, vars09,
            vars15, vars03, vars06, varsRuns, varsMin, vars14, vars02,
            vars13, vars16>>

Init01 ==
    /\ \E before \in OtherLines, nl \in {<< >>, <<"\n">>} :
          \/ \E n \in 0..MaxPieces : \E ps \in [1..n -> Pieces] :
                text01 = before \o Concat(ps) \o nl
          \/ \E line \in QuotedLines : text01 = before \o line \o nl
    /\ part01 = 0
    /\ calibrations = << >>
    /\ sum01 = << >>
    /\ pc01 = "input"

\* part1::Calibrations::try_from(input)?
TryFromPart1 ==
    /\ pc01 = "input"
    /\ part01' = 1
    /\ calibrations' = CalibrationsTryFrom(1, text01)
    /\ pc01' = IF calibrations' = << >> THEN "err" ELSE "parsed"
    /\ UNCHANGED <<text01, sum01, rest01>>

\* part2::Calibrations::try_from(input)?
TryFromPart2 ==
    /\ pc01 = "input"
    /\ part01' = 2
    /\ calibrations' = CalibrationsTryFrom(2, text01)
    /\ pc01' = IF calibrations' = << >> THEN "err" ELSE "parsed"
    /\ UNCHANGED <<text01, sum01, rest01>>

\* calibrations.sum()
Sum01 ==
    /\ pc01 = "parsed"
    /\ sum01' = <<CalibrationsSum(calibrations[1], Len(calibrations[1]))>>
    /\ pc01' = "summed"
    /\ UNCHANGED <<text01, part01, calibrations, rest01>>

InitDay01 == Init01 /\ IdleMain /\ Idle05 /\ Idle04 /\ Idle07 /\ Idle11
             /\ Idle08 /\ Idle09 /\ Idle15 /\ Idle03 /\ Idle06 /\ IdleRuns
             /\ IdleMin /\ Idle14 /\ Idle02 /\ Idle13 /\ Idle16
NextDay01 == TryFromPart1 \/ TryFromPart2 \/ Sum01
SpecDay01 == InitDay01 /\ [][NextDay01]_vars

(***************************************************************************)
(* Claims about the calibration values                                     *)
(***************************************************************************)

\* The digit found at the 1-based position i of a line, as a set: the digit
\* the byte at i writes, and in part 2 also every digit whose word starts at i.
DigitsAt(p, line, i) ==
    {v \in 0..9 : line[i] = AsciiDigits[v + 1]}
    \cup (IF p = 2
          THEN {v \in 0..9 :
                  LET w == ZERO_TO_NINE[v + 1][2]
                  IN  /\ i + Len(w) - 1 <= Len(line)
                      /\ \A j \in 1..Len(w) : line[i + j - 1] = w[j]}
          ELSE {})

DigitPositions(p, line) == {i \in 1..Len(line) : DigitsAt(p, line, i) # {}}

SetMin(S) == CHOOSE x \in S : \A y \in S : x <= y
SetMax(S) == CHOOSE x \in S : \A y \in S : x >= y

\* 10 x (first digit found) + (last digit found)
FirstLastValue(p, line) ==
    LET pos == DigitPositions(p, line)
    IN  10 * SetMin(DigitsAt(p, line, SetMin(pos)))
           + SetMin(DigitsAt(p, line, SetMax(pos)))

\* C11: once a part has parsed a text, the parse has failed exactly when some
\* line holds no digit; otherwise the value of every line is 10 x (first digit
\* found) + (last digit found), digits being looked for at every byte position
\* (in part 2 digit words too, overlapping ones each counting), a position
\* never holds two different digits, and a line with one digit yields it
\* twice; in part 2 "eightwothree" is worth 83 and "oneight" 18.
C11_CalibrationValue ==
    pc01 \in {"parsed", "err", "summed"} =>
        LET lines == StrLines(text01, << >>)
        IN  /\ calibrations = << >> <=>
                  \E l \in DOMAIN lines : DigitPositions(part01, lines[l]) = {}
            /\ pc01 = "err" <=> calibrations = << >>
            /\ calibrations # << >> =>
                  /\ Len(calibrations[1]) = Len(lines)
                  /\ \A l \in DOMAIN lines :
                        LET pos == DigitPositions(part01, lines[l])
                        IN  /\ \A i \in pos : Cardinality(DigitsAt(part01, lines[l], i)) = 1
                            /\ calibrations[1][l] = FirstLastValue(part01, lines[l])
                            /\ Cardinality(pos) = 1 =>
                                  calibrations[1][l]
                                     = 11 * SetMin(DigitsAt(part01, lines[l], SetMin(pos)))
                            /\ (part01 = 2 /\ lines[l] = Eightwothree) => calibrations[1][l] = 83
                            /\ (part01 = 2 /\ lines[l] = Oneight) => calibrations[1][l] = 18

\* Part 2 on the one line "oneight": the words one and eight share the e.
C11_Witness ==
    /\ pc01 = "summed" /\ part01 = 2
    /\ text01 = Oneight
    /\ calibrations = << <<18>> >>
    /\ sum01 = <<18>>

(***************************************************************************)
(* day11.rs: the expanding universe                                        *)
(***************************************************************************)

\* struct Galaxy(usize, usize): x (the column), then y (the row)
Galaxy(x, y) == <<x, y>>

\* Galaxy::shortest_distance
ShortestDistance(g1, g2) ==
    LET AbsDiff(a, b) == IF a >= b THEN a - b ELSE b - a
    IN  AbsDiff(g1[1], g2[1]) + AbsDiff(g1[2], g2[2])

\* Universe::from_str: the '#' cells, line by line, left to right.
RECURSIVE LineGalaxies(_, _, _)
LineGalaxies(line, y, x) ==
    IF x >= Len(line) THEN << >>
    ELSE (IF line[x + 1] = "#" THEN <<Galaxy(x, y)>> ELSE << >>)
            \o LineGalaxies(line, y, x + 1)

RECURSIVE UniverseFromStr(_, _)
UniverseFromStr(lines, y) ==
    IF y >= Len(lines) THEN << >>
    ELSE LineGalaxies(lines[y + 1], y, 0) \o UniverseFromStr(lines, y + 1)

\* Universe::max_cols (c = 1), Universe::max_rows (c = 2), of a non-empty list
MaxCoord(gs, c) ==
    CHOOSE m \in {gs[i][c] : i \in DOMAIN gs} : \A i \in DOMAIN gs : gs[i][c] <= m

\* What each empty row or column adds (day11.rs:93, 117).
ExpansionGrowth == 1000000 - 1

\* The fold of expand_rows (c = 2) and expand_cols (c = 1) over the iterator:
\* the iterator gives the lines 0..=max, an empty Galaxies for a line that
\* holds no galaxy. acc is the offsets vector, n the growth so far.
RECURSIVE OffsetsFold(_, _, _, _, _)
OffsetsFold(gs, c, cur, n, acc) ==
    IF cur > MaxCoord(gs, c) THEN acc
    ELSE IF \A i \in DOMAIN gs : gs[i][c] # cur
         THEN OffsetsFold(gs, c, cur + 1, n + ExpansionGrowth, Append(acc, n))
         ELSE OffsetsFold(gs, c, cur + 1, n, Append(acc, n))

\* Universe::expand_rows: galaxy.1 += row_offsets[galaxy.1]
ExpandRows(gs) ==
    LET row_offsets == OffsetsFold(gs, 2, 0, 0, << >>)
    IN  [i \in DOMAIN gs |-> Galaxy(gs[i][1], gs[i][2] + row_offsets[gs[i][2] + 1])]

\* Universe::expand_cols: galaxy.0 += col_offsets[galaxy.0]
ExpandCols(gs) ==
    LET col_offsets == OffsetsFold(gs, 1, 0, 0, << >>)
    IN  [i \in DOMAIN gs |-> Galaxy(gs[i][1] + col_offsets[gs[i][1] + 1], gs[i][2])]

\* Universe::sum_of_shortest_distance: iter().combinations(2), summed.
RECURSIVE SumPairs(_, _, _)
SumPairs(gs, i, j) ==
    IF i >= Len(gs) THEN 0
    ELSE IF j > Len(gs) THEN SumPairs(gs, i + 1, i + 2)
    ELSE ShortestDistance(gs[i], gs[j]) + SumPairs(gs, i, j + 1)

SumOfShortestDistance(gs) == SumPairs(gs, 1, 2)

\* ---- the inputs

MaxRows11 == 3
MaxCols11 == 3

\* The universe of the puzzle's sample: ten lines of ten cells, nine galaxies.
SampleGalaxyCells ==
    {<<3, 0>>, <<7, 1>>, <<0, 2>>, <<6, 4>>, <<1, 5>>, <<9, 6>>, <<7, 8>>,
     <<0, 9>>, <<4, 9>>}
SampleImage ==
    [y \in 1..10 |-> [x \in 1..10 |->
        IF <<x - 1, y - 1>> \in SampleGalaxyCells THEN "#" ELSE "."]]

rest11 == <<varsMain, vars05, vars04, vars07, vars01, vars08, vars09,
            vars15, vars03, vars06, varsRuns, varsMin, vars14, vars02,
            vars13, vars16>>

Init11 ==
    /\ \/ \E h \in 1..MaxRows11, w \in 1..MaxCols11 :
             image \in [1..h -> [1..w -> {".", "#"}]]
       \/ image = SampleImage
    /\ galaxies = UniverseFromStr(image, 0)
    /\ sum11 = << >>
    /\ pc11 = "parsed"

\* universe.expand(): expand_rows, then expand_cols; max().unwrap() panics in
\* a universe without galaxies.
Expand ==
    /\ pc11 = "parsed"
    /\ IF galaxies = << >>
       THEN galaxies' = galaxies /\ pc11' = "panic"
       ELSE galaxies' = ExpandCols(ExpandRows(galaxies)) /\ pc11' = "expanded"
    /\ UNCHANGED <<image, sum11, rest11>>

\* universe.sum_of_shortest_distance()
SumDistances ==
    /\ pc11 = "expanded"
    /\ sum11' = <<SumOfShortestDistance(galaxies)>>
    /\ pc11' = "summed"
    /\ UNCHANGED <<image, galaxies, rest11>>

InitDay11 == Init11 /\ IdleMain /\ Idle05 /\ Idle04 /\ Idle07 /\ Idle01
             /\ Idle08 /\ Idle09 /\ Idle15 /\ Idle03 /\ Idle06 /\ IdleRuns
             /\ IdleMin /\ Idle14 /\ Idle02 /\ Idle13 /\ Idle16
NextDay11 == Expand \/ SumDistances
SpecDay11 == InitDay11 /\ [][NextDay11]_vars

(***************************************************************************)
(* Claims about the expanding universe                                     *)
(***************************************************************************)

\* The lines above row y, and the columns left of column x, that hold no '#'.
EmptyRowsAbove(img, y) ==
    Cardinality({r \in 0..(y - 1) : \A x \in DOMAIN img[r + 1] : img[r + 1][x] # "#"})
EmptyColsLeft(img, x) ==
    Cardinality({c \in 0..(x - 1) :
                    \A r \in DOMAIN img : c + 1 \in DOMAIN img[r] => img[r][c + 1] # "#"})

\* C13: after expand() every galaxy has moved down by the number of empty
\* rows above it and right by the number of empty columns to its left (every
\* empty line counts as two), and the distances of the sample universe sum
\* to 374.
C13_ExpandDoublesEmpty ==
    /\ pc11 \in {"expanded", "summed"} =>
          LET before == UniverseFromStr(image, 0)
          IN  \A i \in DOMAIN galaxies :
                 /\ galaxies[i][1] = before[i][1] + EmptyColsLeft(image, before[i][1])
                 /\ galaxies[i][2] = before[i][2] + EmptyRowsAbove(image, before[i][2])
    /\ (pc11 = "summed" /\ image = SampleImage) => sum11 = <<374>>

(***************************************************************************)
(* day08.rs: the walks through the network                                 *)
(***************************************************************************)

\* struct Label([u8; 3]), Label::START and Label::END
Label(a, b, c) == <<a, b, c>>
START == Label("A", "A", "A")
END == Label("Z", "Z", "Z")

Node(n, l, r) == [name |-> n, left |-> l, right |-> r]

\* self.labels.get(&label): the HashMap collected from nodes keeps the last
\* node of a name. << >> for None, <<node>> for Some(node).
LabelsGet(ns, l) ==
    LET hits == {i \in DOMAIN ns : ns[i].name = l}
    IN  IF hits = {} THEN << >>
        ELSE <<ns[CHOOSE i \in hits : \A j \in hits : j <= i]>>

\* self.instruction.0.iter().cycle(): the direction of the move after n moves
CycleDirection(instr, n) == instr[(n % Len(instr)) + 1]

\* match direction { Left => node.left, Right => node.right }
MoveSwapped(node, direction) == IF direction = "L" THEN node.right ELSE node.left
Move(node, direction) == IF direction = "L" THEN node.left ELSE node.right

\* multi_steps: the nodes whose name ends in 'A', in the order of nodes
RECURSIVE StartingLabels(_)
StartingLabels(ns) ==
    IF ns = << >> THEN << >>
    ELSE (IF Head(ns).name[3] = "A" THEN <<Head(ns)>> ELSE << >>)
            \o StartingLabels(Tail(ns))

\* fn gcd
RECURSIVE Gcd(_, _)
Gcd(a, b) == IF b # 0 THEN Gcd(b, a % b) ELSE a

\* fn lcm
Lcm(a, b) == (a \div Gcd(a, b)) * b

\* fn lcm_of_set: reduce(lcm), then NonZeroUsize::new. << >> for None.
RECURSIVE ReduceLcm(_, _, _)
ReduceLcm(numbers, i, acc) ==
    IF i > Len(numbers) THEN acc ELSE ReduceLcm(numbers, i + 1, Lcm(acc, numbers[i]))

LcmOfSet(numbers) ==
    IF numbers = << >> THEN << >>
    ELSE LET l == ReduceLcm(numbers, 2, numbers[1])
         IN  IF l = 0 THEN << >> ELSE <<l>>

\* ---- the inputs

\* The labels of the networks tried: two that end in A, one that ends in Z.
Labels8 == <<START, Label("B", "B", "A"), END>>
LabelSet8 == {Labels8[i] : i \in DOMAIN Labels8}

MaxInstr8 == 2

\* The moves a loop is followed for. A walk over the labels of Labels8 that
\* has not arrived after Len(Labels8) * MaxInstr8 moves has stood on the same
\* label at the same point of the instruction list twice and never arrives;
\* the walks of the test networks arrive within 6 moves.
StepCap8 == Len(Labels8) * MaxInstr8 + 1

\* nodes for a choice f: every label either has no node (f[i] = << >>) or one
\* node <<left, right>>, in the order of Labels8. parse_input gives at least
\* one node (separated_list1) and one direction (many1).
RECURSIVE NodesOf(_, _)
NodesOf(f, i) ==
    IF i > Len(Labels8) THEN << >>
    ELSE (IF f[i] = << >> THEN << >> ELSE <<Node(Labels8[i], f[i][1], f[i][2])>>)
            \o NodesOf(f, i + 1)

\* The networks written in tests::test_with_sample.
TestInstr1 == <<"L", "L", "R">>
TestNodes1 ==
    << Node(START, Label("B", "B", "B"), Label("B", "B", "B")),
       Node(Label("B", "B", "B"), START, END),
       Node(END, END, END) >>
TestInstr2 == <<"L", "R">>
TestNodes2 ==
    LET X == Label("X", "X", "X")
        L1(c) == Label("1", "1", c)
        L2(c) == Label("2", "2", c)
    IN  << Node(L1("A"), L1("B"), X), Node(L1("B"), X, L1("Z")),
           Node(L1("Z"), L1("B"), X), Node(L2("A"), L2("B"), X),
           Node(L2("B"), L2("C"), L2("C")), Node(L2("C"), L2("Z"), L2("Z")),
           Node(L2("Z"), L2("B"), L2("B")), Node(X, X, X) >>

rest08 == <<varsMain, vars05, vars04, vars07, vars01, vars11, vars09,
            vars15, vars03, vars06, varsRuns, varsMin, vars14, vars02,
            vars13, vars16>>

Init08 ==
    /\ \/ /\ \E n \in 1..MaxInstr8 : instruction \in [1..n -> {"L", "R"}]
          /\ \E f \in [DOMAIN Labels8 -> {<< >>} \cup (LabelSet8 \X LabelSet8)] :
                nodes = NodesOf(f, 1) /\ nodes # << >>
       \/ instruction = TestInstr1 /\ nodes = TestNodes1
       \/ instruction = TestInstr2 /\ nodes = TestNodes2
    /\ label8 = << >>
    /\ steps8 = 0
    /\ start_idx = 0
    /\ counts8 = << >>
    /\ part1_8 = << >>
    /\ part2_8 = << >>
    /\ pc8 = "parsed"

\* input.steps(), up to the loop
CallSteps ==
    /\ pc8 = "parsed"
    /\ label8' = START
    /\ steps8' = 0
    /\ pc8' = "steps"
    /\ UNCHANGED <<instruction, nodes, start_idx, counts8, part1_8, part2_8, rest08>>

\* One pass of the loop of steps(): get(&label).unwrap(), the move, the test.
StepsIter ==
    /\ pc8 = "steps" /\ steps8 < StepCap8
    /\ LET node == LabelsGet(nodes, label8)
       IN  IF node = << >>
           THEN /\ pc8' = "steps_panic"
                /\ UNCHANGED <<label8, steps8, part1_8>>
           ELSE /\ label8' = Move(node[1], CycleDirection(instruction, steps8))
                /\ steps8' = steps8 + 1
                /\ IF label8' = END
                   THEN part1_8' = <<steps8'>> /\ pc8' = "steps_done"
                   ELSE part1_8' = part1_8 /\ pc8' = "steps"
    /\ UNCHANGED <<instruction, nodes, start_idx, counts8, part2_8, rest08>>

\* lcm_of_set(&steps).unwrap().get(), at the end of multi_steps
MultiReturn(collected) ==
    IF LcmOfSet(collected) = << >>
    THEN part2_8' = << >> /\ pc8' = "multi_panic"
    ELSE part2_8' = LcmOfSet(collected) /\ pc8' = "multi_done"

\* input.multi_steps(), up to the first walk's loop
CallMultiSteps ==
    /\ pc8 = "parsed"
    /\ LET starting_labels == StartingLabels(nodes)
       IN  IF starting_labels = << >>
           THEN /\ MultiReturn(<< >>)
                /\ UNCHANGED <<label8, start_idx>>
           ELSE /\ label8' = starting_labels[1].name
                /\ start_idx' = 1
                /\ part2_8' = << >> /\ pc8' = "multi"
    /\ steps8' = 0
    /\ counts8' = << >>
    /\ UNCHANGED <<instruction, nodes, part1_8, rest08>>

\* One pass of the inner loop of multi_steps; at the break the walk's steps
\* are collected and the next starting node's walk begins, or the lcm is taken.
MultiIter ==
    /\ pc8 = "multi" /\ steps8 < StepCap8
    /\ LET node == LabelsGet(nodes, label8)
           starting_labels == StartingLabels(nodes)
       IN  IF node = << >>
           THEN /\ pc8' = "multi_panic"
                /\ UNCHANGED <<label8, steps8, start_idx, counts8, part2_8>>
           ELSE LET next == Move(node[1], CycleDirection(instruction, steps8))
                IN  IF next[3] # "Z"
                    THEN /\ label8' = next
                         /\ steps8' = steps8 + 1
                         /\ UNCHANGED <<start_idx, counts8, part2_8, pc8>>
                    ELSE /\ counts8' = Append(counts8, steps8 + 1)
                         /\ steps8' = 0
                         /\ IF start_idx < Len(starting_labels)
                            THEN /\ start_idx' = start_idx + 1
                                 /\ label8' = starting_labels[start_idx + 1].name
                                 /\ UNCHANGED <<part2_8, pc8>>
                            ELSE /\ label8' = next
                                 /\ start_idx' = start_idx
                                 /\ MultiReturn(counts8')
    /\ UNCHANGED <<instruction, nodes, part1_8, rest08>>

InitDay08 == Init08 /\ IdleMain /\ Idle05 /\ Idle04 /\ Idle07 /\ Idle01
             /\ Idle11 /\ Idle09 /\ Idle15 /\ Idle03 /\ Idle06 /\ IdleRuns
             /\ IdleMin /\ Idle14 /\ Idle02 /\ Idle13 /\ Idle16
NextDay08 == CallSteps \/ StepsIter \/ CallMultiSteps \/ MultiIter
SpecDay08 == InitDay08 /\ [][NextDay08]_vars

\* SpecDay08 with the loop of steps() running on for as long as it can.
LiveDay08 == InitDay08 /\ [][NextDay08]_vars /\ WF_vars(StepsIter)

(***************************************************************************)
(* Claims about the walks                                                  *)
(***************************************************************************)

\* Where the walk from a label stands after s moves along the cyclic
\* instruction list; << >> once it has met a label the network has no node for.
RECURSIVE WalkAt(_, _, _, _)
WalkAt(ns, instr, from, s) ==
    IF s = 0 THEN from
    ELSE LET prev == WalkAt(ns, instr, from, s - 1)
             at == {i \in DOMAIN ns : ns[i].name = prev}
         IN  IF at = {} THEN << >>
             ELSE LET n == ns[CHOOSE i \in at : \A j \in at : j <= i]
                  IN  IF instr[((s - 1) % Len(instr)) + 1] = "L" THEN n.left ELSE n.right

\* All the walks from the names ending in A stand on a label ending in Z
\* after s moves.
AllOnZ(s) ==
    \A i \in DOMAIN nodes :
        nodes[i].name[3] = "A" =>
            LET w == WalkAt(nodes, instruction, nodes[i].name, s)
            IN  w # << >> /\ w[3] = "Z"

\* C14: what multi_steps() returns is the least s >= 1 at which all the walks
\* from the names ending in A stand on a label ending in Z together (6 for the
\* network of the test).
C14_SimultaneousArrival ==
    pc8 = "multi_done" =>
        /\ part2_8[1] >= 1
        /\ AllOnZ(part2_8[1])
        /\ \A s \in 1..(part2_8[1] - 1) : ~ AllOnZ(s)
        /\ (nodes = TestNodes2 /\ instruction = TestInstr2) => part2_8 = <<6>>

ArrivesAt(s) == WalkAt(nodes, instruction, START, s) = END
ReachesEnd == \E s \in 1..StepCap8 : ArrivesAt(s)

\* C15: steps() returns s only when the walk from AAA stands on ZZZ after s
\* moves and after no fewer (at least one), while it runs it has not passed
\* ZZZ, it neither returns nor goes on when the walk never reaches ZZZ or
\* meets a label without a node, 6 is returned for the LLR network of the
\* test, and whenever the walk reaches ZZZ the running loop returns.
C15_StepsLeast ==
    /\ [](/\ pc8 = "steps_done" =>
                /\ part1_8 = <<steps8>> /\ steps8 >= 1
                /\ ArrivesAt(steps8)
                /\ \A s \in 1..(steps8 - 1) : ~ ArrivesAt(s)
                /\ (nodes = TestNodes1 /\ instruction = TestInstr1) => steps8 = 6
          /\ pc8 \in {"steps", "steps_panic"} =>
                /\ part1_8 = << >>
                /\ \A s \in 1..steps8 : ~ ArrivesAt(s)
                /\ label8 = WalkAt(nodes, instruction, START, steps8)
          /\ pc8 = "steps_panic" => ~ ReachesEnd)
    /\ ((pc8 = "steps" /\ ReachesEnd) ~> (pc8 = "steps_done"))

\* The LLR network of the test: AAA, BBB, AAA, BBB, AAA, BBB, ZZZ.
C15_Witness ==
    /\ pc8 = "steps_done"
    /\ nodes = TestNodes1 /\ instruction = TestInstr1
    /\ part1_8 = <<6>>

(***************************************************************************)
(* day09.rs: the extrapolated histories                                    *)
(***************************************************************************)

\* deltas.windows(2).map(|w| w[1] - w[0]).collect()
Windows2Swapped(deltas) == [i \in 1..(Len(deltas) - 1) |-> deltas[i] - deltas[i + 1]]
Windows2(deltas) == [i \in 1..(Len(deltas) - 1) |-> deltas[i + 1] - deltas[i]]

\* Vec::reverse
Reverse(v) == [i \in 1..Len(v) |-> v[Len(v) + 1 - i]]

\* The loop of History::next_value: << >> when deltas[deltas.len() - 1]
\* indexes an empty vector (a panic), else <<placeholders>>.
RECURSIVE PlaceholdersLoopReturns(_, _)
PlaceholdersLoopReturns(deltas, placeholders) ==
    IF deltas = << >> THEN <<placeholders>>
    ELSE LET pushed == Append(placeholders, deltas[Len(deltas)])
         IN  IF \A i \in DOMAIN deltas : deltas[i] = 0 THEN <<pushed>>
             ELSE PlaceholdersLoopReturns(Windows2(deltas), pushed)
RECURSIVE PlaceholdersLoop(_, _)
PlaceholdersLoop(deltas, placeholders) ==
    IF deltas = << >> THEN << >>
    ELSE LET pushed == Append(placeholders, deltas[Len(deltas)])
         IN  IF \A i \in DOMAIN deltas : deltas[i] = 0 THEN <<pushed>>
             ELSE PlaceholdersLoop(Windows2(deltas), pushed)

\* placeholders.into_iter().fold(0, |delta, curr| curr + delta)
RECURSIVE FoldAdd(_, _, _)
FoldAdd(v, i, delta) == IF i > Len(v) THEN delta ELSE FoldAdd(v, i + 1, v[i] + delta)

\* History::next_value: << >> for a panic, <<v>> for the value returned
NextValue(h) ==
    LET p == PlaceholdersLoop(h, << >>)
    IN  IF p = << >> THEN << >> ELSE <<FoldAdd(Reverse(p[1]), 1, 0)>>

\* Histories::next_values: << >> when one next_value panics
NextValues(hs) ==
    IF \E i \in DOMAIN hs : NextValue(hs[i]) = << >> THEN << >>
    ELSE <<[i \in DOMAIN hs |-> NextValue(hs[i])[1]]>>

\* ---- the inputs

MaxLen9 == 4
MaxVal9 == 2

\* The three histories of the puzzle's sample (next values 18, 28, 68).
SampleHistories ==
    << <<0, 3, 6, 9, 12, 15>>, <<1, 3, 6, 10, 15, 21>>, <<10, 13, 16, 21, 30, 45>> >>

rest09 == <<varsMain, vars05, vars04, vars07, vars01, vars11, vars08,
            vars15, vars03, vars06, varsRuns, varsMin, vars14, vars02,
            vars13, vars16>>

\* parse_histories gives at least one history, parse_history at least one number.
Init09 ==
    /\ \/ \E n \in 1..MaxLen9 : \E h \in [1..n -> (0 - MaxVal9)..MaxVal9] :
             \/ histories = <<h>>
             \/ histories = <<SampleHistories[1], h>>
       \/ histories = SampleHistories
       \/ histories = << <<1, 3>> >>
    /\ next_values = << >>
    /\ prev_values = << >>
    /\ part1_9 = << >>
    /\ part2_9 = << >>
    /\ pc9 = "parsed"

\* histories.sum()
Sum09 ==
    /\ pc9 = "parsed"
    /\ next_values' = NextValues(histories)
    /\ IF next_values' = << >>
       THEN part1_9' = << >> /\ pc9' = "panic"
       ELSE part1_9' = <<FoldAdd(next_values'[1], 1, 0)>> /\ pc9' = "part1"
    /\ UNCHANGED <<histories, prev_values, part2_9, rest09>>

\* histories.reverse_sum()
ReverseSum09 ==
    /\ pc9 = "part1"
    /\ prev_values' = NextValues([i \in DOMAIN histories |-> Reverse(histories[i])])
    /\ IF prev_values' = << >>
       THEN part2_9' = << >> /\ pc9' = "panic"
       ELSE part2_9' = <<FoldAdd(prev_values'[1], 1, 0)>> /\ pc9' = "part2"
    /\ UNCHANGED <<histories, next_values, part1_9, rest09>>

InitDay09 == Init09 /\ IdleMain /\ Idle05 /\ Idle04 /\ Idle07 /\ Idle01
             /\ Idle11 /\ Idle08 /\ Idle15 /\ Idle03 /\ Idle06 /\ IdleRuns
             /\ IdleMin /\ Idle14 /\ Idle02 /\ Idle13 /\ Idle16
NextDay09 == Sum09 \/ ReverseSum09
SpecDay09 == InitDay09 /\ [][NextDay09]_vars

(***************************************************************************)
(* Claims about the extrapolated histories                                 *)
(***************************************************************************)

\* The k-th row of successive differences of a sequence (row 0 is the sequence).
RECURSIVE DiffRow(_, _)
DiffRow(h, k) ==
    IF k = 0 THEN h
    ELSE LET r == DiffRow(h, k - 1)
         IN  [i \in 1..(Len(r) - 1) |-> r[i + 1] - r[i]]

AllZero(r) == \A i \in DOMAIN r : r[i] = 0

\* The rows of length >= 1 that are all zeros, and the first of them.
ZeroRows(h) == {k \in 0..(Len(h) - 1) : AllZero(DiffRow(h, k))}
ZeroDepth(h) == CHOOSE k \in ZeroRows(h) : \A j \in ZeroRows(h) : k <= j

RECURSIVE SumLast(_, _)
SumLast(h, k) ==
    IF k < 0 THEN 0
    ELSE DiffRow(h, k)[Len(h) - k] + SumLast(h, k - 1)

RECURSIVE SumSeq9(_, _)
SumSeq9(v, n) == IF n = 0 THEN 0 ELSE SumSeq9(v, n - 1) + v[n]

\* C16: once sum() has returned, the next value of every history is the sum
\* of the last elements of its difference rows down to the first all-zero
\* row, and the history with that value appended has an all-zero row at the
\* same depth; once reverse_sum() has returned, each history with the value
\* of its reverse put in front has an all-zero row at that depth and the
\* result is the sum of those values; the sample gives 18, 28, 68 and 2.
C16_Extrapolation ==
    /\ pc9 \in {"part1", "part2"} =>
          /\ \A i \in DOMAIN histories :
                LET h == histories[i]
                    d == ZeroDepth(h)
                IN  /\ ZeroRows(h) # {}
                    /\ next_values[1][i] = SumLast(h, d)
                    /\ AllZero(DiffRow(Append(h, next_values[1][i]), d))
          /\ part1_9 = <<SumSeq9(next_values[1], Len(histories))>>
          /\ histories = SampleHistories => next_values = << <<18, 28, 68>> >>
    /\ pc9 = "part2" =>
          /\ \A i \in DOMAIN histories :
                LET h == histories[i]
                IN  AllZero(DiffRow(<<prev_values[1][i]>> \o h, ZeroDepth(h)))
          /\ part2_9 = <<SumSeq9(prev_values[1], Len(histories))>>
          /\ histories = SampleHistories => part2_9 = <<2>>
    /\ (pc9 = "parsed" /\ \A i \in DOMAIN histories : ZeroRows(histories[i]) # {})
          => NextValues(histories) # << >>

\* The sample: next values 18, 28, 68 (114 in all), previous values -3, 0, 5.
C16_Witness ==
    /\ pc9 = "part2"
    /\ histories = SampleHistories
    /\ next_values = << <<18, 28, 68>> >>
    /\ prev_values = << <<0 - 3, 0, 5>> >>
    /\ part1_9 = <<114>> /\ part2_9 = <<2>>

(***************************************************************************)
(* day15.rs: the step hash and the lens boxes                              *)
(***************************************************************************)

\* Strings are sequences of bytes (ASCII codes): 'a' is 97, '0' is 48.

\* usize arithmetic, at the least width a usize can have (16 bits): what does
\* not wrap at this width wraps at no width.
UsizeModulus == 65536

WrappingAdd(a, b) == (a + b) % UsizeModulus
WrappingMul(a, b) == (a * b) % UsizeModulus
WrappingRem(a, b) == a % b

\* The body of the loop of Step::hash
HashRoundTimes16(h, b) == WrappingRem(WrappingMul(WrappingAdd(h, b), 16), 256)
HashRound(h, b) == WrappingRem(WrappingMul(WrappingAdd(h, b), 17), 256)

\* Whether one of the wrapping operations of the loop body wraps.
HashRoundWraps(h, b) ==
    \/ h + b >= UsizeModulus
    \/ WrappingAdd(h, b) * 17 >= UsizeModulus

\* Step::hash
RECURSIVE HashFrom(_, _, _)
HashFrom(bytes, i, h) ==
    IF i > Len(bytes) THEN h ELSE HashFrom(bytes, i + 1, HashRound(h, bytes[i]))

StepHash(bytes) == HashFrom(bytes, 1, 0)

\* enum Op
Remove == <<"Remove">>
Add(n) == <<"Add", n>>

\* parse_step, for a label and an operation: inner is the text of the step,
\* "label-" or "label=n" with n a single digit.
Step(label, op) ==
    [inner |-> label \o (IF op = Remove THEN <<45>> ELSE <<61, 48 + op[2]>>),
     label |-> label, op |-> op]

\* boxes[hash].iter().position(|s| s.label == step.label): 0 for None
Position(bx, label) ==
    LET at == {i \in DOMAIN bx : bx[i].label = label}
    IN  IF at = {} THEN 0 ELSE CHOOSE i \in at : \A j \in at : i <= j

\* Vec::remove
VecRemove(bx, i) == SubSeq(bx, 1, i - 1) \o SubSeq(bx, i + 1, Len(bx))

\* The Op::Remove arm of run(), on the box of the label
BoxRemoveStores(bx, step) == Append(bx, step)
BoxRemove(bx, step) ==
    IF Position(bx, step.label) # 0 THEN VecRemove(bx, Position(bx, step.label)) ELSE bx

\* The Op::Add arm of run(), on the box of the label
BoxAddAtEnd(bx, step) ==
    IF Position(bx, step.label) # 0
    THEN Append(VecRemove(bx, Position(bx, step.label)), step)
    ELSE Append(bx, step)
BoxAdd(bx, step) ==
    IF Position(bx, step.label) # 0
    THEN [bx EXCEPT ![Position(bx, step.label)] = step]
    ELSE Append(bx, step)

\* vec![vec![]; 256]
NumBoxes == 256

\* The power loops of run(): the inner loop over the slots of one box ...
RECURSIVE BoxPower(_, _, _)
BoxPower(bx, bx_idx, slot) ==
    IF slot > Len(bx) THEN 0
    ELSE (bx_idx + 1) * slot * bx[slot].op[2] + BoxPower(bx, bx_idx, slot + 1)

\* ... and the outer loop over the boxes lo..hi; the terms are added by
\* halves, which gives the sum the loop gives.
RECURSIVE Power(_, _, _)
Power(bxs, lo, hi) ==
    IF lo > hi THEN 0
    ELSE IF lo = hi THEN BoxPower(bxs[lo], lo, 1)
    ELSE LET mid == (lo + hi) \div 2
         IN  Power(bxs, lo, mid) + Power(bxs, mid + 1, hi)

\* self.0.iter().map(|s| s.hash_step()).sum()
RECURSIVE SumOfHashesFrom(_, _)
SumOfHashesFrom(ss, i) ==
    IF i > Len(ss) THEN 0 ELSE StepHash(ss[i].inner) + SumOfHashesFrom(ss, i + 1)

\* ---- the inputs

\* The labels of the puzzle's sample: rn and cm hash to 0, qp to 1, the
\* others to 3.
Rn == <<114, 110>>
Cm == <<99, 109>>
Qp == <<113, 112>>
Pc == <<112, 99>>
Ot == <<111, 116>>
Ab == <<97, 98>>

\* The steps of the puzzle's sample:
\* rn=1,cm-,qp=3,cm=2,qp-,pc=4,ot=9,ab=5,pc-,pc=6,ot=7
SampleSteps ==
    << Step(Rn, Add(1)), Step(Cm, Remove), Step(Qp, Add(3)), Step(Cm, Add(2)),
       Step(Qp, Remove), Step(Pc, Add(4)), Step(Ot, Add(9)), Step(Ab, Add(5)),
       Step(Pc, Remove), Step(Pc, Add(6)), Step(Ot, Add(7)) >>

\* The strings of tests::test_hash: rn=1, rn, cm-, cm, qp=3, qp
TestStrings ==
    { Rn \o <<61, 49>>, Rn, Cm \o <<45>>, Cm, Qp \o <<61, 51>>, Qp }

\* Stands for a string whose bytes are not fixed in advance: the loop of
\* Step::hash reads any byte at every pass.
AnyBytes == <<"any">>
Bytes == 0..255

MaxSteps15 == 3
MaxFocal15 == 2

\* The steps tried: two labels that hash to one box, removed or
\* added with a focal length 1..MaxFocal15.
GenericSteps ==
    {Step(l, Remove) : l \in {Rn, Cm}}
    \cup {Step(l, Add(n)) : l \in {Rn, Cm}, n \in 1..MaxFocal15}

rest15 == <<varsMain, vars05, vars04, vars07, vars01, vars11, vars08,
            vars09, vars03, vars06, varsRuns, varsMin, vars14, vars02,
            vars13, vars16>>

varsHash15 == <<hinput, hpos, hbyte, hash15, hwrapped, hpc>>
varsRun15 == <<steps15, boxes, step_idx, part1_15, part2_15, pc15>>

\* Step::hash(bytes), at `let mut hash = 0usize`
InitHash15 ==
    /\ hinput \in TestStrings \cup {AnyBytes, << >>}
    /\ hpos = 0
    /\ hbyte = << >>
    /\ hash15 = 0
    /\ hwrapped = FALSE
    /\ hpc = "loop"

\* `for &b in bytes`: the iterator gives the next byte
HashNextByte ==
    /\ hpc = "loop" /\ hbyte = << >>
    /\ \E b \in Bytes :
        /\ IF hinput = AnyBytes
           THEN hpos' = hpos
           ELSE hpos < Len(hinput) /\ b = hinput[hpos + 1] /\ hpos' = hpos + 1
        /\ hbyte' = <<b>>
    /\ UNCHANGED <<hinput, hash15, hwrapped, hpc, varsRun15, rest15>>

\* The body of the loop, for the byte given
HashByte ==
    /\ hpc = "loop" /\ hbyte # << >>
    /\ hash15' = HashRound(hash15, hbyte[1])
    /\ hwrapped' = (hwrapped \/ HashRoundWraps(hash15, hbyte[1]))
    /\ hbyte' = << >>
    /\ UNCHANGED <<hinput, hpos, hpc, varsRun15, rest15>>

\* The end of the loop: `hash` is returned
HashReturn ==
    /\ hpc = "loop" /\ hbyte = << >>
    /\ hinput = AnyBytes \/ hpos = Len(hinput)
    /\ hpc' = "done"
    /\ UNCHANGED <<hinput, hpos, hbyte, hash15, hwrapped, varsRun15, rest15>>

\* Steps::try_from gives at least one step (split(',') gives at least one item).
InitRun15 ==
    /\ \/ \E n \in 1..MaxSteps15 : steps15 \in [1..n -> GenericSteps]
       \/ steps15 = SampleSteps
    /\ boxes = << >>
    /\ step_idx = 0
    /\ part1_15 = << >>
    /\ part2_15 = << >>
    /\ pc15 = "parsed"

\* steps.sum_of_hashes()
SumOfHashes ==
    /\ pc15 = "parsed" /\ part1_15 = << >>
    /\ part1_15' = <<SumOfHashesFrom(steps15, 1)>>
    /\ UNCHANGED <<steps15, boxes, step_idx, part2_15, pc15, varsHash15, rest15>>

\* steps.run(), up to the loop over the steps
CallRun ==
    /\ pc15 = "parsed"
    /\ boxes' = [b \in 0..(NumBoxes - 1) |-> << >>]
    /\ step_idx' = 0
    /\ pc15' = "run"
    /\ UNCHANGED <<steps15, part1_15, part2_15, varsHash15, rest15>>

\* One pass of `for step in &self.0`
RunStep ==
    /\ pc15 = "run" /\ step_idx < Len(steps15)
    /\ LET step == steps15[step_idx + 1]
           hash == StepHash(step.label)
       IN  boxes' = [boxes EXCEPT ![hash] =
                        IF step.op = Remove THEN BoxRemove(@, step) ELSE BoxAdd(@, step)]
    /\ step_idx' = step_idx + 1
    /\ UNCHANGED <<steps15, part1_15, part2_15, pc15, varsHash15, rest15>>

\* The power loops of run() and its return; a step with Op::Remove in a box
\* takes the loops to unreachable!(), a panic
RunPower ==
    /\ pc15 = "run" /\ step_idx = Len(steps15)
    /\ IF \E b \in DOMAIN boxes : \E i \in DOMAIN boxes[b] : boxes[b][i].op = Remove
       THEN part2_15' = part2_15 /\ pc15' = "unreachable"
       ELSE part2_15' = <<Power(boxes, 0, NumBoxes - 1)>> /\ pc15' = "done"
    /\ UNCHANGED <<steps15, boxes, step_idx, part1_15, varsHash15, rest15>>

Init15 == InitRun15 /\ IdleHash15
InitH15 == InitHash15 /\ IdleRun15

InitDay15 == Init15 /\ IdleMain /\ Idle05 /\ Idle04 /\ Idle07 /\ Idle01
             /\ Idle11 /\ Idle08 /\ Idle09 /\ Idle03 /\ Idle06 /\ IdleRuns
             /\ IdleMin /\ Idle14 /\ Idle02 /\ Idle13 /\ Idle16
InitDay15Hash == InitH15 /\ IdleMain /\ Idle05 /\ Idle04 /\ Idle07
                 /\ Idle01 /\ Idle11 /\ Idle08 /\ Idle09 /\ Idle03
                 /\ Idle06 /\ IdleRuns /\ IdleMin /\ Idle14 /\ Idle02
                 /\ Idle13 /\ Idle16
NextDay15 == SumOfHashes \/ CallRun \/ RunStep \/ RunPower
SpecDay15 == InitDay15 /\ [][NextDay15]_vars

NextDay15Hash == HashNextByte \/ HashByte \/ HashReturn
SpecDay15Hash == InitDay15Hash /\ [][NextDay15Hash]_vars

(***************************************************************************)
(* Claims about the step hash and the lens boxes                           *)
(***************************************************************************)

\* The hash of a byte string as the fold h := ((h + byte) x 17) mod 256 from 0,
\* in unbounded arithmetic, over the first n bytes.
RECURSIVE RefHash(_, _)
RefHash(bytes, n) ==
    IF n = 0 THEN 0 ELSE ((RefHash(bytes, n - 1) + bytes[n]) * 17) % 256

\* The steps 1..k of a label, its last removal among them (0 for none) and
\* the additions since.
StepsOfLabel(l, k) == {i \in 1..k : steps15[i].label = l}
LastRemoval(l, k) ==
    LET rm == {0} \cup {i \in StepsOfLabel(l, k) : steps15[i].op = <<"Remove">>}
    IN  CHOOSE i \in rm : \A j \in rm : j <= i
AddsSince(l, k) ==
    {i \in StepsOfLabel(l, k) : i > LastRemoval(l, k) /\ steps15[i].op[1] = "Add"}

\* After k steps: the labels that have a lens in box b, the step that put the
\* lens of a label there, its focal length and its slot (1-based).
LensesIn(b, k) ==
    {l \in {steps15[i].label : i \in 1..k} :
        AddsSince(l, k) # {} /\ RefHash(l, Len(l)) = b}
PutAt(l, k) == CHOOSE i \in AddsSince(l, k) : \A j \in AddsSince(l, k) : i <= j
FocalOf(l, k) ==
    steps15[CHOOSE i \in AddsSince(l, k) : \A j \in AddsSince(l, k) : j <= i].op[2]
SlotOf(l, k) ==
    1 + Cardinality({m \in LensesIn(RefHash(l, Len(l)), k) : PutAt(m, k) < PutAt(l, k)})

RECURSIVE SumPower(_, _)
SumPower(ls, k) ==
    IF ls = {} THEN 0
    ELSE LET l == CHOOSE x \in ls : TRUE
         IN  (RefHash(l, Len(l)) + 1) * SlotOf(l, k) * FocalOf(l, k)
                + SumPower(ls \ {l}, k)

\* C17: run() starts from 256 empty boxes, and after every step the lenses of
\* each box are the labels hashing to it whose last step is not a removal, in
\* the order in which they were put there since their last removal, each with
\* the focal length of its last step; run() returns the sum of (box + 1) x
\* (slot + 1) x focal length over all lenses, 145 for the sample.
C17_LensBoxes ==
    LET used == {RefHash(steps15[i].label, Len(steps15[i].label)) : i \in 1..step_idx}
    IN  /\ pc15 \in {"run", "done"} =>
              /\ DOMAIN boxes = 0..255
              /\ \A b \in DOMAIN boxes : b \notin used => boxes[b] = << >>
              /\ \A b \in used :
                    /\ Len(boxes[b]) = Cardinality(LensesIn(b, step_idx))
                    /\ \A l \in LensesIn(b, step_idx) :
                          /\ boxes[b][SlotOf(l, step_idx)].label = l
                          /\ boxes[b][SlotOf(l, step_idx)].op
                                = <<"Add", FocalOf(l, step_idx)>>
        /\ pc15 = "done" =>
              /\ step_idx = Len(steps15)
              /\ part2_15
                    = <<SumPower(UNION {LensesIn(b, step_idx) : b \in used}, step_idx)>>
              /\ steps15 = SampleSteps => part2_15 = <<145>>

\* The sample: rn=1 and cm=2 in box 0, ot=7, ab=5 and pc=6 in box 3.
C17_Witness ==
    /\ pc15 = "done" /\ steps15 = SampleSteps
    /\ boxes[0] = <<Step(Rn, Add(1)), Step(Cm, Add(2))>>
    /\ boxes[3] = <<Step(Ot, Add(7)), Step(Ab, Add(5)), Step(Pc, Add(6))>>
    /\ part2_15 = <<145>>

\* C18: `hash` is always in 0..255, every pass of the loop takes it to
\* ((hash + byte) x 17) mod 256 without any operation wrapping, the value
\* returned for a string is that fold from 0, and the strings rn=1, rn, cm-,
\* cm, qp=3, qp give 30, 0, 253, 0, 97, 1.
C18_StepHash ==
    /\ [](/\ hpc \in {"loop", "done"} =>
                /\ hash15 \in 0..255
                /\ ~ hwrapped
                /\ hinput # AnyBytes =>
                      hash15 = RefHash(hinput, IF hbyte = << >> THEN hpos ELSE hpos - 1)
          /\ hpc = "done" =>
                /\ hinput = <<114, 110, 61, 49>> => hash15 = 30
                /\ hinput = <<114, 110>> => hash15 = 0
                /\ hinput = <<99, 109, 45>> => hash15 = 253
                /\ hinput = <<99, 109>> => hash15 = 0
                /\ hinput = <<113, 112, 61, 51>> => hash15 = 97
                /\ hinput = <<113, 112>> => hash15 = 1)
    /\ [][(hbyte # << >> /\ hbyte' = << >>) =>
             /\ hash15' = ((hash15 + hbyte[1]) * 17) % 256
             /\ (hash15 + hbyte[1]) * 17 < UsizeModulus]_vars

\* The string qp=3 of the test, hashed to its end.
C18_Witness ==
    /\ hpc = "done"
    /\ hinput = <<113, 112, 61, 51>> /\ hpos = 4
    /\ hash15 = 97

(***************************************************************************)
(* day03.rs: the engine schematic and its gears                            *)
(***************************************************************************)

\* enum Cell
Number(num, len) == <<"Number", num, len>>
Dot == <<"Dot">>
Symbol(ch) == <<"Symbol", ch>>
IsNumber(cell) == cell[1] = "Number"

\* struct Pos, Pos::new and Add for Pos
Pos(x, y) == <<x, y>>
PosAdd(p, q) == Pos(p[1] + q[1], p[2] + q[2])

\* Pos::NEIGHBORS
NEIGHBORS ==
    << Pos(0, 1), Pos(1, 1), Pos(1, 0), Pos(1, -1),
       Pos(0, -1), Pos(-1, -1), Pos(-1, 0), Pos(-1, 1) >>

\* Pos::neighbors
Neighbors(p) == [i \in DOMAIN NEIGHBORS |-> PosAdd(p, NEIGHBORS[i])]

\* digit1: the length of the run of digits of ln that starts at i
RECURSIVE Digit1(_, _)
Digit1(ln, i) ==
    IF i <= Len(ln) /\ IsAsciiDigit(ln[i]) THEN 1 + Digit1(ln, i + 1) ELSE 0

\* str::parse::<usize> on the n digits of ln from i
RECURSIVE ParseUsize(_, _, _, _)
ParseUsize(ln, i, n, acc) ==
    IF n = 0 THEN acc ELSE ParseUsize(ln, i + 1, n - 1, 10 * acc + DigitOfByte(ln[i]))

\* parse_cells (many1 of parse_cell: a number, a '.', or any other character)
\* on a non-empty line, from its i-th character
RECURSIVE ParseCells(_, _)
ParseCells(ln, i) ==
    IF i > Len(ln) THEN << >>
    ELSE IF IsAsciiDigit(ln[i])
         THEN LET n == Digit1(ln, i)
              IN  <<Number(ParseUsize(ln, i, n, 0), n)>> \o ParseCells(ln, i + n)
         ELSE IF ln[i] = "." THEN <<Dot>> \o ParseCells(ln, i + 1)
         ELSE <<Symbol(ln[i])>> \o ParseCells(ln, i + 1)

\* Engine::from_str, the grid
GridFromStr(ls) == [r \in DOMAIN ls |-> ParseCells(ls[r], 1)]

\* The number of columns a cell takes: `col += len` or `col += 1`
CellWidth(cell) == IF IsNumber(cell) THEN cell[3] ELSE 1

\* `col` when the loops of new() and gears() reach the i-th cell of a row
RECURSIVE ColOf(_, _)
ColOf(cells, i) == IF i = 1 THEN 0 ELSE ColOf(cells, i - 1) + CellWidth(cells[i - 1])

\* Engine::new: every position a cell covers is mapped to the cell
EngineNew(g) ==
    LET cellsOf == UNION {{<<r, i>> : i \in 1..Len(g[r])} : r \in DOMAIN g}
        covered(ri) == {Pos(ri[1] - 1, ColOf(g[ri[1]], ri[2]) + k) :
                           k \in 0..(CellWidth(g[ri[1]][ri[2]]) - 1)}
        cellAt(p) == LET ri == CHOOSE ri \in cellsOf : p \in covered(ri)
                     IN  g[ri[1]][ri[2]]
    IN  [p \in UNION {covered(ri) : ri \in cellsOf} |-> cellAt(p)]

\* gears(), the HashSet `neighbor_numbers` of the '*' at p: the Number cells
\* among the cells at its eight neighbours, equal cells held once
NeighborNumbers(m, p) ==
    {m[q] : q \in {q \in {Neighbors(p)[i] : i \in DOMAIN NEIGHBORS} \cap DOMAIN m :
                      IsNumber(m[q])}}

\* gears(), the inner loop: the positions of the '*' cells of row r for which
\* an entry is pushed, from the i-th cell of the row on
RECURSIVE GearsOfRow(_, _, _, _)
GearsOfRow(g, m, r, i) ==
    IF i > Len(g[r]) THEN << >>
    ELSE LET p == Pos(r - 1, ColOf(g[r], i))
         IN  IF g[r][i] = Symbol("*") /\ Cardinality(NeighborNumbers(m, p)) = 2
             THEN <<p>> \o GearsOfRow(g, m, r, i + 1)
             ELSE GearsOfRow(g, m, r, i + 1)

\* gears(), the outer loop: those positions row after row, from row r on
RECURSIVE GearPositions(_, _, _)
GearPositions(g, m, r) ==
    IF r > Len(g) THEN << >> ELSE GearsOfRow(g, m, r, 1) \o GearPositions(g, m, r + 1)

\* `nums`: the numbers of the set's cells in the order its iterator yields
\* them, which the HashSet leaves open
NumsOf(cs) ==
    {<<a[2], b[2]>> : <<a, b>> \in {ab \in cs \X cs : ab[1] # ab[2]}}

\* nums.into_iter().product() of every entry, summed
RECURSIVE GearFirstSum(_, _)
GearFirstSum(gs, i) ==
    IF i > Len(gs) THEN 0 ELSE gs[i][1] + GearFirstSum(gs, i + 1)
RECURSIVE GearRatioSum(_, _)
GearRatioSum(gs, i) ==
    IF i > Len(gs) THEN 0 ELSE gs[i][1] * gs[i][2] + GearRatioSum(gs, i + 1)

MaxCells3 == 5

\* The characters tried: two digits, '.', and '*'
Alphabet3 == {"2", "3", ".", "*"}

\* sample/day03.txt
SampleLines3 ==
    << <<"4","6","7",".",".","1","1","4",".",".">>,
       <<".",".",".","*",".",".",".",".",".",".">>,
       <<".",".","3","5",".",".","6","3","3",".">>,
       <<".",".",".",".",".",".","#",".",".",".">>,
       <<"6","1","7","*",".",".",".",".",".",".">>,
       <<".",".",".",".",".","+",".","5","8",".">>,
       <<".",".","5","9","2",".",".",".",".",".">>,
       <<".",".",".",".",".",".","7","5","5",".">>,
       <<".",".",".","$",".","*",".",".",".",".">>,
       <<".","6","6","4",".","5","9","8",".",".">> >>

rest03 == <<varsMain, vars05, vars04, vars07, vars01, vars11, vars08,
            vars09, vars15, vars06, varsRuns, varsMin, vars14, vars02,
            vars13, vars16>>

\* input.parse::<Engine>(): rectangles of MaxCells3 characters at most, and
\* the sample
Init03 ==
    /\ \/ \E r \in 1..MaxCells3 : \E c \in 1..MaxCells3 :
            /\ r * c <= MaxCells3
            /\ lines3 \in [1..r -> [1..c -> Alphabet3]]
       \/ lines3 = SampleLines3
    /\ grid = GridFromStr(lines3)
    /\ pos_2_cells = EngineNew(grid)
    /\ gears = << >>
    /\ part2_3 = << >>
    /\ pc3 = "parsed"

\* engine.gears()
Gears ==
    /\ pc3 = "parsed"
    /\ LET at == GearPositions(grid, pos_2_cells, 1)
       IN  \E gs \in [1..Len(at) -> UNION {NumsOf(NeighborNumbers(pos_2_cells, at[i])) :
                                              i \in 1..Len(at)}] :
              /\ \A i \in 1..Len(at) : gs[i] \in NumsOf(NeighborNumbers(pos_2_cells, at[i]))
              /\ gears' = <<gs>>
    /\ pc3' = "gears"
    /\ UNCHANGED <<lines3, grid, pos_2_cells, part2_3, rest03>>

\* gear_ratios.iter().sum()
SumGearRatios ==
    /\ pc3 = "gears"
    /\ part2_3' = <<GearRatioSum(gears[1], 1)>>
    /\ pc3' = "done"
    /\ UNCHANGED <<lines3, grid, pos_2_cells, gears, rest03>>

InitDay03 == Init03 /\ IdleMain /\ Idle05 /\ Idle04 /\ Idle07 /\ Idle01
             /\ Idle11 /\ Idle08 /\ Idle09 /\ Idle15 /\ Idle06 /\ IdleRuns
             /\ IdleMin /\ Idle14 /\ Idle02 /\ Idle13 /\ Idle16
NextDay03 == Gears \/ SumGearRatios
SpecDay03 == InitDay03 /\ [][NextDay03]_vars

(***************************************************************************)
(* C19: the gears of the schematic                                         *)
(***************************************************************************)

\* The number tokens of the text: <<r, c1, c2>> for a maximal run of digits
\* of line r from column c1 to column c2 (columns from 1)
Tokens3 ==
    {t \in UNION {{<<r, c1, c2>> : c1 \in 1..Len(lines3[r]), c2 \in 1..Len(lines3[r])} :
                     r \in DOMAIN lines3} :
        /\ t[2] <= t[3]
        /\ \A c \in t[2]..t[3] : IsAsciiDigit(lines3[t[1]][c])
        /\ t[2] > 1 => ~ IsAsciiDigit(lines3[t[1]][t[2] - 1])
        /\ t[3] < Len(lines3[t[1]]) => ~ IsAsciiDigit(lines3[t[1]][t[3] + 1])}
TokenValue(t) == ParseUsize(lines3[t[1]], t[2], t[3] - t[2] + 1, 0)

\* The '*' characters of the text, and the tokens in the 8-neighbourhood of one
Stars3 == {s \in UNION {{<<r, c>> : c \in 1..Len(lines3[r])} : r \in DOMAIN lines3} :
              lines3[s[1]][s[2]] = "*"}
Touching(s) ==
    {t \in Tokens3 : /\ t[1] \in (s[1] - 1)..(s[1] + 1)
                     /\ \E c \in t[2]..t[3] : c \in (s[2] - 1)..(s[2] + 1)}
TwoTokenStars == {s \in Stars3 : Cardinality(Touching(s)) = 2}
Before3(s, t) == s[1] < t[1] \/ (s[1] = t[1] /\ s[2] < t[2])
Rank3(s) == 1 + Cardinality({t \in TwoTokenStars : Before3(t, s)})

\* C19: gears() returns one entry for every '*' that touches exactly two number
\* tokens, tokens of equal value and length counting as two, in the order of
\* the text; the entry holds the values of those two tokens; and the sample's
\* gear ratios add up to 467835.
C19_GearsByOccurrence ==
    /\ pc3 \in {"gears", "done"} =>
          /\ Len(gears[1]) = Cardinality(TwoTokenStars)
          /\ \A s \in TwoTokenStars :
                \E t \in Touching(s) : \E u \in Touching(s) \ {t} :
                    gears[1][Rank3(s)] = <<TokenValue(t), TokenValue(u)>>
    /\ pc3 = "done" /\ lines3 = SampleLines3 => part2_3 = <<467835>>

(***************************************************************************)
(* day06.rs: the boat races                                                *)
(***************************************************************************)

\* struct Race
Race(time, distance) == [time |-> time, distance |-> distance]

\* Race::distance, past its assertion
Distance(race, h) == (race.time - h) * h

\* The predicate of skip_while: |&(_, distance)| distance <= self.distance
LosesStrictly(race, d) == d < race.distance
Loses(race, d) == d <= race.distance

\* The predicate of take_while: |&(_, distance)| distance > self.distance
Wins(race, d) == d > race.distance

\* .filter(|&len| len > 0).product() of Races::num_winning_bets
RECURSIVE ProductOfWins(_, _)
ProductOfWins(cs, i) ==
    IF i > Len(cs) THEN 1
    ELSE (IF cs[i] > 0 THEN cs[i] ELSE 1) * ProductOfWins(cs, i + 1)

MaxTime6 == 8
MaxDist6 == 16

\* sample/day06.txt: "Time: 7 15 30", "Distance: 9 40 200"
SampleRaces == <<Race(7, 9), Race(15, 40), Race(30, 200)>>

\* Two races out of: one way to win, two ways, none
PairRaces == {Race(2, 0), Race(3, 1), Race(1, 5)}

rest06 == <<varsMain, vars05, vars04, vars07, vars01, vars11, vars08,
            vars09, vars15, vars03, varsRuns, varsMin, vars14, vars02,
            vars13, vars16>>

\* input.parse::<Races>(): one race of a time up to MaxTime6 and a record up
\* to MaxDist6, two races of PairRaces, or the sample
Init06 ==
    /\ \/ \E t \in 0..MaxTime6 : \E d \in 0..MaxDist6 : races = <<Race(t, d)>>
       \/ races \in [1..2 -> PairRaces]
       \/ races = SampleRaces
    /\ race_idx = 0
    /\ hold_time = 0
    /\ called6 = << >>
    /\ phase6 = "done"
    /\ count6 = 0
    /\ counts6 = << >>
    /\ part1_6 = << >>
    /\ pc6 = "parsed"

\* Race::num_winning_bets is entered for the next race of `.map(...)`
CallNumWinningBets ==
    /\ pc6 \in {"parsed", "returned"}
    /\ race_idx < Len(races)
    /\ race_idx' = race_idx + 1
    /\ hold_time' = 0
    /\ called6' = << >>
    /\ phase6' = "skip_while"
    /\ count6' = 0
    /\ pc6' = "counting"
    /\ UNCHANGED <<races, counts6, part1_6, rest06>>

\* count() pulls one item through map, skip_while and take_while
NextHoldTime ==
    /\ pc6 = "counting" /\ phase6 # "done"
    /\ LET race == races[race_idx]
       IN  IF hold_time > race.time
           THEN \* the range 0..=self.time is exhausted
                /\ phase6' = "done"
                /\ UNCHANGED <<hold_time, called6, count6, pc6>>
           ELSE /\ called6' = <<hold_time>>
                /\ hold_time' = hold_time + 1
                /\ IF ~ (hold_time <= race.time)
                   THEN \* assert!(hold_time <= self.time)
                        /\ pc6' = "assert_failed"
                        /\ UNCHANGED <<phase6, count6>>
                   ELSE LET d == Distance(race, hold_time)
                        IN  /\ pc6' = pc6
                            /\ IF phase6 = "skip_while" /\ Loses(race, d)
                               THEN UNCHANGED <<phase6, count6>>
                               ELSE IF Wins(race, d)
                                    THEN /\ phase6' = "take_while"
                                         /\ count6' = count6 + 1
                                    ELSE /\ phase6' = "done"
                                         /\ UNCHANGED count6
    /\ UNCHANGED <<races, race_idx, counts6, part1_6, rest06>>

\* Race::num_winning_bets returns what count() counted
ReturnCount ==
    /\ pc6 = "counting" /\ phase6 = "done"
    /\ counts6' = Append(counts6, count6)
    /\ pc6' = "returned"
    /\ UNCHANGED <<races, race_idx, hold_time, called6, phase6, count6, part1_6, rest06>>

\* Races::num_winning_bets returns the product of the counts above 0
ReturnProduct ==
    /\ pc6 = "returned" /\ race_idx = Len(races) /\ part1_6 = << >>
    /\ part1_6' = <<ProductOfWins(counts6, 1)>>
    /\ UNCHANGED <<races, race_idx, hold_time, called6, phase6, count6, counts6, pc6, rest06>>

InitDay06 == Init06 /\ IdleMain /\ Idle05 /\ Idle04 /\ Idle07 /\ Idle01
             /\ Idle11 /\ Idle08 /\ Idle09 /\ Idle15 /\ Idle03 /\ IdleRuns
             /\ IdleMin /\ Idle14 /\ Idle02 /\ Idle13 /\ Idle16
NextDay06 == CallNumWinningBets \/ NextHoldTime \/ ReturnCount \/ ReturnProduct
SpecDay06 == InitDay06 /\ [][NextDay06]_vars

(***************************************************************************)
(* C20: the number of winning bets                                         *)
(***************************************************************************)

\* The hold times 0..time that beat the record, counted directly
WinningHolds(race) == {h \in 0..race.time : h * (race.time - h) > race.distance}

\* C20: distance() is only ever called with a hold time of at most the race
\* time, so that its assertion never fails, and what num_winning_bets()
\* returns for a race is the number of hold times h in 0..time with
\* h x (time - h) > distance; the sample's races give 4, 8 and 9.
C20_NumWinningBets ==
    /\ pc6 # "assert_failed"
    /\ race_idx > 0 /\ called6 # << >> => called6[1] <= races[race_idx].time
    /\ Len(counts6) <= Len(races)
    /\ \A i \in DOMAIN counts6 : counts6[i] = Cardinality(WinningHolds(races[i]))
    /\ races = SampleRaces /\ Len(counts6) = 3 => counts6 = <<4, 8, 9>>

\* A race of time 5 and record 3: the hold times 0 and 5 lose, 1..4 win, and
\* the count of four was returned after distance(5) was called.
C20_Witness ==
    /\ races = <<Race(5, 3)>>
    /\ pc6 = "returned" /\ counts6 = <<4>>
    /\ called6 = <<5>>

(***************************************************************************)
(* main.rs and the day functions over several runs of the binary           *)
(***************************************************************************)

\* The days of the chain whose functions are executed here, in chain order
RunDays == <<3, 9, 11>>

MaxRuns == 2

\* `let input = include_str!(...); input.parse()`: the locals of day d, built
\* from the embedded text and from nothing else
ParseDay(d, txt) ==
    CASE d = 3 -> LET g == GridFromStr(txt) IN [grid |-> g, pos_2_cells |-> EngineNew(g)]
      [] d = 9 -> [histories |-> txt]
      [] d = 11 -> [galaxies |-> UniverseFromStr(txt, 0)]

\* The body of the day function on its locals: the set of the locals it may
\* leave, << >> standing for a panic. day03 collects a HashSet per gear,
\* whose iteration order depends on the run; day11 expands the universe in
\* place.
ComputeDay(d, l) ==
    CASE d = 3 ->
           LET at == GearPositions(l.grid, l.pos_2_cells, 1)
               nums_at(i) == NumsOf(NeighborNumbers(l.pos_2_cells, at[i]))
           IN  {[gears |-> gs] :
                  gs \in {gs \in [1..Len(at) -> UNION {nums_at(i) : i \in 1..Len(at)}] :
                            \A i \in 1..Len(at) : gs[i] \in nums_at(i)}}
      [] d = 9 ->
           LET nv == NextValues(l.histories)
               pv == NextValues([i \in DOMAIN l.histories |-> Reverse(l.histories[i])])
           IN  IF nv = << >> \/ pv = << >> THEN {<< >>}
               ELSE {[next_values |-> nv[1], prev_values |-> pv[1]]}
      [] d = 11 ->
           IF l.galaxies = << >> THEN {<< >>}
           ELSE {[galaxies |-> ExpandCols(ExpandRows(l.galaxies))]}

\* What the day function reports at its end
AnswerOf(d, l) ==
    CASE d = 3 -> GearRatioSum(l.gears, 1)
      [] d = 9 -> <<FoldAdd(l.next_values, 1, 0), FoldAdd(l.prev_values, 1, 0)>>
      [] d = 11 -> SumOfShortestDistance(l.galaxies)

\* The inputs a build may embed: the sample of each day and one other text
EmbeddedInputs ==
    [i \in DOMAIN RunDays |->
        CASE RunDays[i] = 3 -> {SampleLines3, << <<"2", "*", "3">> >>}
          [] RunDays[i] = 9 -> {SampleHistories, << <<1, 2>> >>}
          [] RunDays[i] = 11 -> {SampleImage, << <<"#", ".", "#">> >>}]

RunArgs == {DayArg(RunDays[i]) : i \in DOMAIN RunDays}

restRuns == <<varsMain, vars05, vars04, vars07, vars01, vars11, vars08,
              vars09, vars15, vars03, vars06, varsMin, vars14, vars02,
              vars13, vars16>>

\* The first run starts with some arguments
InitRuns ==
    /\ \E e3 \in EmbeddedInputs[1] : \E e9 \in EmbeddedInputs[2] :
          \E e11 \in EmbeddedInputs[3] : embedded = <<e3, e9, e11>>
    /\ run_no = 1
    /\ run_args \in SUBSET RunArgs
    /\ run_pc = 1
    /\ run_step = "if"
    /\ locals = << >>
    /\ answers = {}

\* `if args.is_empty() || args.contains(..)` is false: on to the next `if`
RunSkip ==
    /\ run_step = "if" /\ run_pc <= Len(RunDays)
    /\ ~ Selected(run_args, RunDays[run_pc])
    /\ run_pc' = run_pc + 1
    /\ UNCHANGED <<embedded, run_no, run_args, run_step, locals, answers, restRuns>>

\* The day function is called and parses its embedded input
RunCall ==
    /\ run_step = "if" /\ run_pc <= Len(RunDays)
    /\ Selected(run_args, RunDays[run_pc])
    /\ locals' = ParseDay(RunDays[run_pc], embedded[run_pc])
    /\ run_step' = "parsed"
    /\ UNCHANGED <<embedded, run_no, run_args, run_pc, answers, restRuns>>

\* The day function computes on its locals, or panics
RunCompute ==
    /\ run_step = "parsed"
    /\ \E l \in ComputeDay(RunDays[run_pc], locals) :
          /\ locals' = l
          /\ run_step' = IF l = << >> THEN "panic" ELSE "computed"
    /\ UNCHANGED <<embedded, run_no, run_args, run_pc, answers, restRuns>>

\* The day function reports its answer and returns: its locals are dropped
RunReturn ==
    /\ run_step = "computed"
    /\ answers' = answers \cup {<<run_no, RunDays[run_pc], AnswerOf(RunDays[run_pc], locals)>>}
    /\ locals' = << >>
    /\ run_pc' = run_pc + 1
    /\ run_step' = "if"
    /\ UNCHANGED <<embedded, run_no, run_args, restRuns>>

\* The process ends, at Ok(()) or by the panic
RunExit ==
    /\ \/ run_step = "if" /\ run_pc > Len(RunDays)
       \/ run_step = "panic"
    /\ run_step' = "exit"
    /\ locals' = << >>
    /\ UNCHANGED <<embedded, run_no, run_args, run_pc, answers, restRuns>>

\* The same binary is run again, with any arguments
RunAgain ==
    /\ run_step = "exit" /\ run_no < MaxRuns
    /\ run_no' = run_no + 1
    /\ run_args' \in SUBSET RunArgs
    /\ run_pc' = 1
    /\ run_step' = "if"
    /\ UNCHANGED <<embedded, locals, answers, restRuns>>

InitDayRuns == InitRuns /\ IdleMain /\ Idle05 /\ Idle04 /\ Idle07 /\ Idle01
               /\ Idle11 /\ Idle08 /\ Idle09 /\ Idle15 /\ Idle03 /\ Idle06
               /\ IdleMin /\ Idle14 /\ Idle02 /\ Idle13 /\ Idle16
NextRuns == RunSkip \/ RunCall \/ RunCompute \/ RunReturn \/ RunExit \/ RunAgain
SpecRuns == InitDayRuns /\ [][NextRuns]_vars

(***************************************************************************)
(* C12: determinism and isolation                                          *)
(***************************************************************************)

\* The index of day d in RunDays
RunIdx(d) == CHOOSE i \in DOMAIN RunDays : RunDays[i] = d

RECURSIVE ProductOfWays(_, _)
ProductOfWays(rs, i) ==
    IF i > Len(rs) THEN 1
    ELSE Cardinality(WinningHolds(rs[i])) * ProductOfWays(rs, i + 1)

\* C25: what Races::num_winning_bets returns is the product, over every race
\* of the list, of the race's number of ways to beat the record, a race
\* without any way to win included (the product is then 0).
C25_ProductOverAllRaces ==
    part1_6 # << >> => part1_6[1] = ProductOfWays(races, 1)

(***************************************************************************)
(* C29: the assertions of the hand classification                          *)
(***************************************************************************)

\* How many ranks have 5, 4, 3, 2 and 1 cards
Shape(counts) ==
    <<NumWithCount(counts, 5), NumWithCount(counts, 4), NumWithCount(counts, 3),
      NumWithCount(counts, 2), NumWithCount(counts, 1)>>

\* The seven ways to split five cards over ranks, with the type of each
TypeOfShape(s) ==
    CASE s = <<1, 0, 0, 0, 0>> -> <<FiveOfAKind>>
      [] s = <<0, 1, 0, 0, 1>> -> <<FourOfAKind>>
      [] s = <<0, 0, 1, 1, 0>> -> <<FullHouse>>
      [] s = <<0, 0, 1, 0, 2>> -> <<ThreeOfAKind>>
      [] s = <<0, 0, 0, 2, 1>> -> <<TwoPairs>>
      [] s = <<0, 0, 0, 1, 3>> -> <<OnePair>>
      [] s = <<0, 0, 0, 0, 5>> -> <<HighCard>>
      [] OTHER -> << >>

\* C29: for every hand of five cards, under the plain rule and under the
\* joker rule, the counts handed to the classification split the five cards
\* in one of the seven ways, the assertion of the branch taken holds (the
\* classification never panics), and the one type produced is the type of
\* that split.
C29_AssertionsHold ==
    /\ pc7 # "panic"
    /\ pc7 \in {"default", "joker"} =>
          /\ ~ HandTypeAssertFails(CardCounts(hand))
          /\ default_type # << >>
          /\ default_type = TypeOfShape(Shape(CardCounts(hand)))
    /\ pc7 = "joker" =>
          /\ ~ HandTypeAssertFails(JokerCounts(hand))
          /\ joker_type # << >>
          /\ joker_type = TypeOfShape(Shape(JokerCounts(hand)))

\* Five jokers: no rank is left to join, and the hand is five of a kind
\* under both rules.
C29_Witness ==
    /\ pc7 = "joker"
    /\ hand = <<J, J, J, J, J>>
    /\ default_type = <<FiveOfAKind>>
    /\ joker_type = <<FiveOfAKind>>

(***************************************************************************)
(* C26: the invariants of the lens boxes                                   *)
(***************************************************************************)

\* The lenses of all boxes: <<box, slot>>
Lenses15 == UNION {{<<b, i>> : i \in DOMAIN boxes[b]} : b \in DOMAIN boxes}

\* C26: after every step processed by run(), every lens of a box was put by
\* an Add step, lies in the box of its label's hash, and shares its label
\* with no other lens of any box; so the power loops never reach
\* unreachable!().
C26_BoxInvariants ==
    /\ pc15 # "unreachable"
    /\ pc15 \in {"run", "done"} =>
          \A at \in Lenses15 :
              LET lens == boxes[at[1]][at[2]]
              IN  /\ lens.op # Remove
                  /\ lens.op[1] = "Add"
                  /\ RefHash(lens.label, Len(lens.label)) = at[1]
                  /\ \A other \in Lenses15 :
                        boxes[other[1]][other[2]].label = lens.label => other = at

\* The sample after its fifth step, qp-: rn and cm are in box 0 and box 1
\* is empty again.
C26_Witness ==
    /\ pc15 = "run"
    /\ steps15 = SampleSteps /\ step_idx = 5
    /\ Len(boxes[0]) = 2
    /\ boxes[0][1].label = Rn /\ boxes[0][2].label = Cm
    /\ boxes[1] = << >>

(***************************************************************************)
(* C30: the failure case of the extrapolation                              *)
(***************************************************************************)

\* The difference rows the loop of next_value() computes from `deltas` on
\* (line 31), until it breaks or indexes an empty row
RECURSIVE RowsComputed(_)
RowsComputed(deltas) ==
    IF deltas = << >> \/ AllZero(deltas) THEN 0
    ELSE 1 + RowsComputed(Windows2(deltas))

\* C30: next_value() computes at most n difference rows for a history of n
\* values; it returns exactly when some row of length >= 1, the history
\* included, is all zeros, and otherwise goes through all n rows down to the
\* empty one and fails there. So sum() panics exactly when one of its
\* histories has no all-zero row; <<1>> and <<1, 3>> are such histories.
C30_FailureCase ==
    /\ \A i \in DOMAIN histories :
          LET h == histories[i]
          IN  /\ RowsComputed(h) <= Len(h)
              /\ (NextValue(h) # << >>) <=> (ZeroRows(h) # {})
              /\ ZeroRows(h) = {} => RowsComputed(h) = Len(h)
              /\ ZeroRows(h) # {} => RowsComputed(h) = ZeroDepth(h)
    /\ pc9 = "panic" => \E i \in DOMAIN histories : ZeroRows(histories[i]) = {}
    /\ pc9 \in {"part1", "part2"} =>
          \A i \in DOMAIN histories : ZeroRows(histories[i]) # {}
    /\ histories \in {<< <<1>> >>, << <<1, 3>> >>} => pc9 \in {"parsed", "panic"}

\* The history 1, 3: its rows are <<1, 3>>, <<2>> and the empty row, where
\* sum() has panicked.
C30_Witness ==
    /\ histories = << <<1, 3>> >>
    /\ pc9 = "panic"
    /\ part1_9 = << >>

(***************************************************************************)
(* day05.rs: Maps::min, one call at a time                                 *)
(***************************************************************************)

\* let mid = (lb + ub) / 2
MidpointIsLb(lb, ub) == lb
Midpoint(lb, ub) == (lb + ub) \div 2

\* A call of Maps::min: `at` is "entry" before the assertion, "left" while
\* self.min(lb, mid) runs, "right" while self.min(mid, ub) runs with the
\* value of the left call kept in `left`
MinCall(lb, ub) == [lb |-> lb, ub |-> ub, at |-> "entry", left |-> << >>]

\* The intervals Maps::min is called on: every lb < ub of the small keys,
\* the seed ranges of the sample and 90..100, which crosses the end of a
\* range of seed-to-soil, and 0..100 and 40..60 on the pipeline of
\* test_that_breaks_day5_part2_algo
TestIntervals(ms) ==
    IF ms = BreakingMaps THEN {<<0, 100>>, <<40, 60>>}
    ELSE IF ms = SeedToSoilMaps THEN {<<79, 93>>, <<55, 68>>, <<90, 100>>}
    ELSE UNION {{<<l, u>> : u \in (l + 1)..(MaxKey + 2)} : l \in 0..(MaxKey + 1)}

restMin == <<varsMain, vars05, vars04, vars07, vars01, vars11, vars08,
             vars09, vars15, vars03, vars06, varsRuns, vars14, vars02,
             vars13, vars16>>

\* The pipelines the query is run on: those of fewer than MaxRanges small
\* ranges, the seed-to-soil map of the sample, and the pipeline of
\* test_that_breaks_day5_part2_algo.
InitMin ==
    /\ \/ \E k \in 0..(MaxRanges - 1) : \E flat \in [1..k -> GenericRanges] :
             \E cuts \in SUBSET (1..(k - 1)) :
                /\ maps = ParseMaps(RawPipeline(flat, cuts))
                /\ built = "parse_input"
       \/ maps = SeedToSoilMaps /\ built = "parse_input"
       \/ maps = BreakingMaps /\ built = "Map::new"
    /\ seeds = << >>
    /\ key = 0
    /\ value = << >>
    /\ part2 = << >>
    /\ pc5 = "built"
    /\ min_lb = 0 /\ min_ub = 0
    /\ min_stack = << >>
    /\ min_ret = << >>
    /\ min_calls = 0
    /\ pcMin = "built"

\* maps.min(lb, ub) of lowest_location_of_seed_ranges, for a chunk lb < ub
CallMin ==
    /\ pcMin = "built"
    /\ \E iv \in TestIntervals(maps) :
          /\ min_lb' = iv[1] /\ min_ub' = iv[2]
          /\ min_stack' = <<MinCall(iv[1], iv[2])>>
    /\ min_calls' = 1
    /\ pcMin' = "min"
    /\ UNCHANGED <<min_ret, vars05, restMin>>

\* The innermost call runs from its entry: the assertion, the one-key case,
\* the linear case, or the call of self.min(lb, mid)
MinEnter ==
    /\ pcMin = "min" /\ min_stack # << >> /\ Head(min_stack).at = "entry"
    /\ LET f == Head(min_stack)
           value_lb == MapsMap(maps, f.lb)
           value_ub == MapsMap(maps, f.ub - 1)
       IN  IF ~ (f.lb < f.ub)
           THEN /\ pcMin' = "assert_failed"
                /\ UNCHANGED <<min_stack, min_ret, min_calls>>
           ELSE /\ pcMin' = pcMin
                /\ IF f.lb + 1 = f.ub
                   THEN /\ min_ret' = <<MapsMap(maps, f.lb)>>
                        /\ min_stack' = Tail(min_stack)
                        /\ UNCHANGED min_calls
                   ELSE IF value_ub > value_lb /\ value_ub - value_lb = (f.ub - f.lb) - 1
                   THEN /\ min_ret' = <<value_lb>>
                        /\ min_stack' = Tail(min_stack)
                        /\ UNCHANGED min_calls
                   ELSE /\ min_stack' = <<MinCall(f.lb, Midpoint(f.lb, f.ub)),
                                          [f EXCEPT !.at = "left"]>> \o Tail(min_stack)
                        /\ min_calls' = min_calls + 1
                        /\ UNCHANGED min_ret
    /\ UNCHANGED <<min_lb, min_ub, vars05, restMin>>

\* A call gets the value of self.min(lb, mid) and calls self.min(mid, ub), or
\* gets the value of self.min(mid, ub) and returns usize::min of the two
MinResume ==
    /\ pcMin = "min" /\ min_stack # << >> /\ Head(min_stack).at # "entry"
    /\ min_ret # << >>
    /\ LET f == Head(min_stack)
       IN  IF f.at = "left"
           THEN /\ min_stack' = <<MinCall(Midpoint(f.lb, f.ub), f.ub),
                                  [f EXCEPT !.at = "right", !.left = min_ret]>>
                                    \o Tail(min_stack)
                /\ min_ret' = << >>
                /\ min_calls' = min_calls + 1
           ELSE /\ min_stack' = Tail(min_stack)
                /\ min_ret' = <<IF f.left[1] <= min_ret[1] THEN f.left[1] ELSE min_ret[1]>>
                /\ UNCHANGED min_calls
    /\ UNCHANGED <<min_lb, min_ub, pcMin, vars05, restMin>>

\* The outermost call has returned
MinReturn ==
    /\ pcMin = "min" /\ min_stack = << >> /\ min_ret # << >>
    /\ pcMin' = "returned"
    /\ UNCHANGED <<min_lb, min_ub, min_stack, min_ret, min_calls, vars05, restMin>>

InitDay05Min == InitMin /\ IdleMain /\ Idle04 /\ Idle07 /\ Idle01 /\ Idle11
                /\ Idle08 /\ Idle09 /\ Idle15 /\ Idle03 /\ Idle06
                /\ IdleRuns /\ Idle14 /\ Idle02 /\ Idle13 /\ Idle16
NextDay05Min == CallMin \/ MinEnter \/ MinResume \/ MinReturn
SpecDay05Min == InitDay05Min /\ [][NextDay05Min]_vars
LiveDay05Min ==
    InitDay05Min /\ [][NextDay05Min]_vars
    /\ WF_vars(MinEnter) /\ WF_vars(MinResume) /\ WF_vars(MinReturn)

(***************************************************************************)
(* C23: the range-minimum query errs on one side only                      *)
(***************************************************************************)

\* C23: for lb < ub, the assertion lb < ub fails in no call of Maps::min,
\* every call below the outermost is on a non-empty interval strictly inside
\* its caller's, every value returned is Maps::map of a key of the interval
\* of the call (so the value of the outermost call is never below the true
\* minimum over [lb, ub)), and the outermost call does return.
C23_MinOneSided ==
    /\ [](/\ pcMin # "assert_failed"
          /\ pcMin \in {"min", "returned"} =>
                /\ min_lb < min_ub
                /\ \A i \in DOMAIN min_stack :
                      /\ min_stack[i].lb < min_stack[i].ub
                      /\ i < Len(min_stack) =>
                            /\ min_stack[i + 1].lb <= min_stack[i].lb
                            /\ min_stack[i].ub <= min_stack[i + 1].ub
                            /\ min_stack[i].ub - min_stack[i].lb
                                 < min_stack[i + 1].ub - min_stack[i + 1].lb
                      /\ min_stack[i].left # << >> =>
                            \E k \in min_stack[i].lb..(min_stack[i].ub - 1) :
                                min_stack[i].left[1] = MapsMap(maps, k)
                /\ min_calls <= 2 * (min_ub - min_lb) - 1
          /\ pcMin = "returned" =>
                /\ \E k \in min_lb..(min_ub - 1) : min_ret[1] = MapsMap(maps, k)
                /\ min_ret[1] >= TrueMin(maps, min_lb, min_ub)
                /\ min_ret[1] = MapsMin(maps, min_lb, min_ub))
    /\ (pcMin = "min") ~> (pcMin = "returned")

\* On the pipeline of test_that_breaks_day5_part2_algo the query over
\* [40, 60) has split once, into [40, 50) and [50, 60), and has returned 0,
\* the value of key 50.
C23_Witness ==
    /\ pcMin = "returned"
    /\ maps = BreakingMaps /\ min_lb = 40 /\ min_ub = 60
    /\ min_ret = <<0>>
    /\ min_calls = 3

(***************************************************************************)
(* day14.rs: the rock field, its tilts and its load                        *)
(***************************************************************************)

CubeRock  == "#"
RoundRock == "O"
EmptyEntry == "."

\* What an index outside a Vec makes of a tilt
OutOfBounds == <<"index out of bounds">>
GridOutOfBounds == <<OutOfBounds>>

\* usize::saturating_sub(1)
SaturatingSub1(n) == IF n = 0 THEN 0 ELSE n - 1

\* start_row += 1 after a cube rock: the next run starts behind the rock
BehindCubeStays(start) == start
BehindCube(start) == start + 1

\* while let Some(entry) = stack.pop() { entries[start] = entry; start += 1 }
\* on one column or row ln; start counts from 0
RECURSIVE PopForward(_, _, _)
PopForward(ln, start, stack) ==
    IF stack = << >> \/ ln = OutOfBounds THEN [line |-> ln, start |-> start]
    ELSE IF start >= Len(ln) THEN [line |-> OutOfBounds, start |-> start]
    ELSE PopForward([ln EXCEPT ![start + 1] = stack[Len(stack)]], start + 1,
                    SubSeq(stack, 1, Len(stack) - 1))

\* while let Some(entry) = stack.pop() { entries[start] = entry;
\*                                       start = start.saturating_sub(1) }
RECURSIVE PopBackward(_, _, _)
PopBackward(ln, start, stack) ==
    IF stack = << >> \/ ln = OutOfBounds THEN [line |-> ln, start |-> start]
    ELSE IF start >= Len(ln) THEN [line |-> OutOfBounds, start |-> start]
    ELSE PopBackward([ln EXCEPT ![start + 1] = stack[Len(stack)]],
                     SaturatingSub1(start), SubSeq(stack, 1, Len(stack) - 1))

\* The while loop of tilt_north and tilt_west over one column or row, from
\* cur on, and the moves of the remaining entries after it
RECURSIVE ScanForward(_, _, _, _, _)
ScanForward(ln, cur, start, round_rocks, empty) ==
    IF ln = OutOfBounds THEN ln
    ELSE IF cur < Len(ln)
    THEN IF ln[cur + 1] = CubeRock
         THEN LET r == PopForward(ln, start, round_rocks)
                  e == PopForward(r.line, r.start, empty)
              IN  ScanForward(e.line, cur + 1, BehindCube(e.start), << >>, << >>)
         ELSE IF ln[cur + 1] = RoundRock
         THEN ScanForward(ln, cur + 1, start, Append(round_rocks, RoundRock), empty)
         ELSE ScanForward(ln, cur + 1, start, round_rocks, Append(empty, EmptyEntry))
    ELSE LET r == PopForward(ln, start, round_rocks)
         IN  PopForward(r.line, r.start, empty).line

\* The loop of tilt_south and tilt_east over one column or row, from cur
\* down to 0, and the moves of the remaining entries after it
RECURSIVE ScanBackward(_, _, _, _, _)
ScanBackward(ln, cur, start, round_rocks, empty) ==
    IF ln = OutOfBounds THEN ln
    ELSE LET at == ln[cur + 1]
             r == PopBackward(ln, start, round_rocks)
             e == PopBackward(r.line, r.start, empty)
             ln1 == IF at = CubeRock THEN e.line ELSE ln
             start1 == IF at = CubeRock THEN SaturatingSub1(e.start) ELSE start
             rr1 == IF at = CubeRock THEN << >>
                    ELSE IF at = RoundRock THEN Append(round_rocks, RoundRock)
                    ELSE round_rocks
             em1 == IF at = CubeRock THEN << >>
                    ELSE IF at = EmptyEntry THEN Append(empty, EmptyEntry)
                    ELSE empty
         IN  IF cur = 0
             THEN LET r2 == PopBackward(ln1, start1, rr1)
                  IN  PopBackward(r2.line, r2.start, em1).line
             ELSE ScanBackward(ln1, cur - 1, start1, rr1, em1)

GridRows(g) == Len(g)
GridCols(g) == Len(g[1])
ColumnOf(g, c) == [r \in 1..GridRows(g) |-> g[r][c]]

\* The grid of the given columns, or of the given rows
FromColumns(g, cs) ==
    IF \E c \in DOMAIN cs : cs[c] = OutOfBounds THEN GridOutOfBounds
    ELSE [r \in 1..GridRows(g) |-> [c \in 1..GridCols(g) |-> cs[c][r]]]
FromRows(g, rs) ==
    IF \E r \in DOMAIN rs : rs[r] = OutOfBounds THEN GridOutOfBounds ELSE rs

tilt_north(g) ==
    FromColumns(g, [c \in 1..GridCols(g) |->
                      ScanForward(ColumnOf(g, c), 0, 0, << >>, << >>)])
tilt_west(g) ==
    FromRows(g, [r \in 1..GridRows(g) |-> ScanForward(g[r], 0, 0, << >>, << >>)])
tilt_south(g) ==
    FromColumns(g, [c \in 1..GridCols(g) |->
                      ScanBackward(ColumnOf(g, c), GridRows(g) - 1, GridRows(g) - 1,
                                   << >>, << >>)])
tilt_east(g) ==
    FromRows(g, [r \in 1..GridRows(g) |->
                   ScanBackward(g[r], GridCols(g) - 1, GridCols(g) - 1, << >>, << >>)])

\* Grid::load: rows - row for every round rock, row counted from 0
RECURSIVE LoadFrom(_, _)
LoadFrom(g, r) ==
    IF r > GridRows(g) THEN 0
    ELSE (GridRows(g) - (r - 1)) * Cardinality({c \in 1..GridCols(g) : g[r][c] = RoundRock})
         + LoadFrom(g, r + 1)
load(g) == LoadFrom(g, 1)

\* for i in 0..1000
SpinCycles == 1000

\* One pass of the loop of part2: the four tilts
SpinCycle(g) == tilt_east(tilt_south(tilt_west(tilt_north(g))))

\* The grids tried: every grid of at most MaxSide14 rows and columns and at
\* most MaxCells14 cells
MaxSide14 == 4
MaxCells14 == 8
Entries14 == {CubeRock, RoundRock, EmptyEntry}
GridsOfShape(nr, nc) == [1..nr -> [1..nc -> Entries14]]
Shapes14 == {s \in (1..MaxSide14) \X (1..MaxSide14) : s[1] * s[2] <= MaxCells14}
\* The grids that are spun: two rows, two columns
SpinShape == <<2, 2>>

rest14 == <<varsMain, vars05, vars04, vars07, vars01, vars11, vars08,
            vars09, vars15, vars03, vars06, varsRuns, varsMin, vars02,
            vars13, vars16>>

Init14 ==
    /\ \E s \in Shapes14 : entries \in GridsOfShape(s[1], s[2])
    /\ original14 = entries
    /\ tilted = ""
    /\ spin_i = 0
    /\ loads = << >>
    /\ part1_14 = << >>
    /\ part2_14 = << >>
    /\ pc14 = "parsed"

\* grid.tilt_north()
TiltNorth ==
    /\ pc14 = "parsed"
    /\ IF tilt_north(entries) = GridOutOfBounds
       THEN entries' = entries /\ tilted' = tilted /\ pc14' = "panic"
       ELSE entries' = tilt_north(entries) /\ tilted' = "north" /\ pc14' = "tilted"
    /\ UNCHANGED <<original14, spin_i, loads, part1_14, part2_14, rest14>>

\* grid.tilt_west()
TiltWest ==
    /\ pc14 = "parsed"
    /\ IF tilt_west(entries) = GridOutOfBounds
       THEN entries' = entries /\ tilted' = tilted /\ pc14' = "panic"
       ELSE entries' = tilt_west(entries) /\ tilted' = "west" /\ pc14' = "tilted"
    /\ UNCHANGED <<original14, spin_i, loads, part1_14, part2_14, rest14>>

\* grid.tilt_south()
TiltSouth ==
    /\ pc14 = "parsed"
    /\ IF tilt_south(entries) = GridOutOfBounds
       THEN entries' = entries /\ tilted' = tilted /\ pc14' = "panic"
       ELSE entries' = tilt_south(entries) /\ tilted' = "south" /\ pc14' = "tilted"
    /\ UNCHANGED <<original14, spin_i, loads, part1_14, part2_14, rest14>>

\* grid.tilt_east()
TiltEast ==
    /\ pc14 = "parsed"
    /\ IF tilt_east(entries) = GridOutOfBounds
       THEN entries' = entries /\ tilted' = tilted /\ pc14' = "panic"
       ELSE entries' = tilt_east(entries) /\ tilted' = "east" /\ pc14' = "tilted"
    /\ UNCHANGED <<original14, spin_i, loads, part1_14, part2_14, rest14>>

\* part1: grid.load() after grid.tilt_north()
Part1Load ==
    /\ pc14 = "tilted" /\ tilted = "north"
    /\ part1_14' = <<load(entries)>>
    /\ pc14' = "part1"
    /\ UNCHANGED <<entries, original14, tilted, spin_i, loads, part2_14, rest14>>

\* part2: one pass of the loop; the four tilts, the load, loads.push(load)
Spin ==
    /\ pc14 \in {"parsed", "spinning"} /\ spin_i < SpinCycles
    /\ \E n \in {tilt_north(entries)} : \E w \in {tilt_west(n)} :
       \E s \in {tilt_south(w)} : \E g \in {tilt_east(s)} :
          IF g = GridOutOfBounds
          THEN /\ pc14' = "panic"
               /\ UNCHANGED <<entries, tilted, spin_i, loads>>
          ELSE /\ entries' = g
               /\ tilted' = "east"
               /\ loads' = Append(loads, load(g))
               /\ spin_i' = spin_i + 1
               /\ pc14' = "spinning"
    /\ UNCHANGED <<original14, part1_14, part2_14, rest14>>

\* part2: after the loop the loads are logged and Ok(()) is returned; no
\* period is looked for and no load is picked
Part2Return ==
    /\ pc14 = "spinning" /\ spin_i = SpinCycles
    /\ pc14' = "part2"
    /\ UNCHANGED <<entries, original14, tilted, spin_i, loads, part1_14, part2_14, rest14>>

InitDay14 == Init14 /\ IdleMain /\ Idle05 /\ Idle04 /\ Idle07 /\ Idle01
             /\ Idle11 /\ Idle08 /\ Idle09 /\ Idle15 /\ Idle03 /\ Idle06
             /\ IdleRuns /\ IdleMin /\ Idle02 /\ Idle13 /\ Idle16
NextDay14 == TiltNorth \/ TiltWest \/ TiltSouth \/ TiltEast \/ Part1Load
SpecDay14 == InitDay14 /\ [][NextDay14]_vars

InitDay14Part2 == InitDay14 /\ GridRows(entries) = SpinShape[1] /\ GridCols(entries) = SpinShape[2]
NextDay14Part2 == Spin \/ Part2Return
SpecDay14Part2 == InitDay14Part2 /\ [][NextDay14Part2]_vars

(***************************************************************************)
(* C27: what a tilt does to the rocks                                      *)
(***************************************************************************)

\* The lines a tilt works on (columns for north and south, rows for west and
\* east), each read from the side the grid is tilted to
LineCount(g, dir) == IF dir \in {"north", "south"} THEN GridCols(g) ELSE GridRows(g)
LineOf(g, dir, i) ==
    CASE dir = "north" -> ColumnOf(g, i)
      [] dir = "south" -> Reverse(ColumnOf(g, i))
      [] dir = "west"  -> g[i]
      [] dir = "east"  -> Reverse(g[i])

TiltOf(dir, g) ==
    CASE dir = "north" -> tilt_north(g)
      [] dir = "south" -> tilt_south(g)
      [] dir = "west"  -> tilt_west(g)
      [] dir = "east"  -> tilt_east(g)

RoundsIn(ln, a, b) == Cardinality({j \in a..b : ln[j] = RoundRock})

\* a..b is a maximal run of ln without cube rocks
MaximalRun(ln, a, b) ==
    /\ a <= b
    /\ \A j \in a..b : ln[j] # CubeRock
    /\ a = 1 \/ ln[a - 1] = CubeRock
    /\ b = Len(ln) \/ ln[b + 1] = CubeRock

\* C27: after a tilt the grid has the shape it had, every cube rock is where
\* it was, every column (north, south) or row (west, east) holds as many
\* round rocks as before, and in every maximal run of cells between cube rocks (or the edges) along the
\* tilt direction the round rocks of the run fill its cells nearest the side
\* tilted to, the rest of the run being empty; tilting the same way again
\* changes nothing.  No tilt indexes outside the grid.
C27_TiltPacksRuns ==
    /\ pc14 # "panic"
    /\ pc14 \in {"tilted", "part1"} =>
          /\ GridRows(entries) = GridRows(original14)
          /\ \A r \in 1..GridRows(original14) :
                /\ Len(entries[r]) = GridCols(original14)
                /\ \A c \in 1..GridCols(original14) :
                      (entries[r][c] = CubeRock) <=> (original14[r][c] = CubeRock)
          /\ \A i \in 1..LineCount(original14, tilted) :
                LET before == LineOf(original14, tilted, i)
                    after  == LineOf(entries, tilted, i)
                IN  /\ RoundsIn(after, 1, Len(after)) = RoundsIn(before, 1, Len(before))
                    /\ \A a \in 1..Len(before) : \A b \in a..Len(before) :
                          MaximalRun(before, a, b) =>
                              \A j \in a..b :
                                  after[j] = IF j < a + RoundsIn(before, a, b)
                                             THEN RoundRock ELSE EmptyEntry
          /\ TiltOf(tilted, entries) = entries

\* A column of four tilted south: the round rock above the cube rock has
\* rolled one cell down to it, the cube rock and the cell below it are as
\* they were.
C27_Witness ==
    /\ pc14 = "tilted" /\ tilted = "south"
    /\ original14 = << <<RoundRock>>, <<EmptyEntry>>, <<CubeRock>>, <<EmptyEntry>> >>
    /\ entries = << <<EmptyEntry>>, <<RoundRock>>, <<CubeRock>>, <<EmptyEntry>> >>

(***************************************************************************)
(* C21: part2 and the load after 1000000000 spin cycles                    *)
(***************************************************************************)

\* The number of spin cycles asked for
TargetCycles == 1000000000

\* The grids after 0, 1, 2, ... spin cycles, up to the first grid that has
\* been seen before
RECURSIVE SpinsUntilRepeat(_)
SpinsUntilRepeat(seen) ==
    LET nxt == CHOOSE g \in {SpinCycle(seen[Len(seen)])} : TRUE
    IN  IF \E j \in DOMAIN seen : seen[j] = nxt THEN Append(seen, nxt)
        ELSE SpinsUntilRepeat(Append(seen, nxt))

\* The grid after n spin cycles, by the period of the repetition
GridAfterSpins(g, n) ==
    LET seen   == SpinsUntilRepeat(<<g>>)
        last   == Len(seen) - 1
        first  == (CHOOSE j \in 1..last : seen[j] = seen[last + 1]) - 1
        period == last - first
    IN  IF n <= last THEN seen[n + 1]
        ELSE seen[first + ((n - first) % period) + 1]

\* C21: when part2 is over it has produced the load of the grid after
\* 1000000000 spin cycles, found through the period with which the grids
\* repeat.
C21_LoadAfterTargetCycles ==
    pc14 = "part2" => part2_14 = <<load(GridAfterSpins(original14, TargetCycles))>>

(***************************************************************************)
(* day02.rs: games of draws from a bag                                     *)
(***************************************************************************)

\* Strings are sequences of one-character strings.

\* The end of the longest run of digits of txt that starts at i (i - 1 if
\* txt[i] is no digit)
RECURSIVE DigitsEnd(_, _)
DigitsEnd(txt, i) ==
    IF i <= Len(txt) /\ IsAsciiDigit(txt[i]) THEN DigitsEnd(txt, i + 1) ELSE i - 1

\* str::parse::<usize> on a run of digits
RECURSIVE DigitsValue(_, _)
DigitsValue(digs, n) ==
    IF n = 0 THEN 0 ELSE 10 * DigitsValue(digs, n - 1) + DigitOfByte(digs[n])

\* Regex "(?P<num>\d+)<word>" searched anywhere in txt: << >> without a
\* match, else <<num>> of the leftmost match
NumBefore(txt, word) ==
    LET starts == {i \in 1..Len(txt) :
                     /\ IsAsciiDigit(txt[i])
                     /\ StartsWith(SubSeq(txt, DigitsEnd(txt, i) + 1, Len(txt)), word)}
    IN  IF starts = {} THEN << >>
        ELSE LET i == CHOOSE i \in starts : \A j \in starts : i <= j
                 digs == SubSeq(txt, i, DigitsEnd(txt, i))
             IN  <<DigitsValue(digs, Len(digs))>>

RedWord   == <<" ", "r", "e", "d">>
GreenWord == <<" ", "g", "r", "e", "e", "n">>
BlueWord  == <<" ", "b", "l", "u", "e">>

\* Red::from_str, Green::from_str, Blue::from_str: << >> is Err
RedFromStr(txt) == NumBefore(txt, RedWord)
GreenFromStr(txt) == NumBefore(txt, GreenWord)
BlueFromStr(txt) == NumBefore(txt, BlueWord)

\* str::split(sep): the pieces of txt between the occurrences of sep
RECURSIVE SplitFrom(_, _, _, _)
SplitFrom(txt, sep, i, cur) ==
    IF i > Len(txt) THEN <<cur>>
    ELSE IF StartsWith(SubSeq(txt, i, Len(txt)), sep)
    THEN <<cur>> \o SplitFrom(txt, sep, i + Len(sep), << >>)
    ELSE SplitFrom(txt, sep, i + 1, Append(cur, txt[i]))
SplitStr(txt, sep) == SplitFrom(txt, sep, 1, << >>)

Bag(r, g, b) == [red |-> r, green |-> g, blue |-> b]

\* The body of the loop of Bag::from_str: a part that is no red, no green and
\* no blue leaves the bag as it is
BagWithPart(bag, piece) ==
    IF RedFromStr(piece) # << >> THEN [bag EXCEPT !.red = RedFromStr(piece)[1]]
    ELSE IF GreenFromStr(piece) # << >> THEN [bag EXCEPT !.green = GreenFromStr(piece)[1]]
    ELSE IF BlueFromStr(piece) # << >> THEN [bag EXCEPT !.blue = BlueFromStr(piece)[1]]
    ELSE bag

\* Bag::from_str: always Ok
RECURSIVE BagOfParts(_, _)
BagOfParts(pieces, n) ==
    IF n = 0 THEN Bag(0, 0, 0) ELSE BagWithPart(BagOfParts(pieces, n - 1), pieces[n])
CommaSpace == <<",", " ">>
BagFromStr(txt) == LET pieces == SplitStr(txt, CommaSpace) IN BagOfParts(pieces, Len(pieces))

\* Game::from_str: GAME_REGEX "^Game (?P<id>\d+): (?P<rest>.*)", then a bag
\* for every piece of rest between "; ".  << >> is Err.
GameWord == <<"G", "a", "m", "e", " ">>
ColonSpace == <<":", " ">>
SemiSpace == <<";", " ">>
GameFromStr(txt) ==
    LET e == DigitsEnd(txt, Len(GameWord) + 1)
    IN  IF /\ StartsWith(txt, GameWord)
           /\ e >= Len(GameWord) + 1
           /\ StartsWith(SubSeq(txt, e + 1, Len(txt)), ColonSpace)
        THEN LET digs == SubSeq(txt, Len(GameWord) + 1, e)
                 draws == SplitStr(SubSeq(txt, e + 1 + Len(ColonSpace), Len(txt)), SemiSpace)
                 bags == [i \in DOMAIN draws |-> BagFromStr(draws[i])]
             IN  <<[id |-> DigitsValue(digs, Len(digs)), bags |-> bags]>>
        ELSE << >>

\* Games::from_str: << >> for the first error, else <<the games of the lines>>
GamesFromStr(ls) ==
    IF \E i \in DOMAIN ls : GameFromStr(ls[i]) = << >> THEN << >>
    ELSE <<[i \in DOMAIN ls |-> GameFromStr(ls[i])[1]]>>

\* Game::is_possible
IsPossible(game, actual) ==
    \A i \in DOMAIN game.bags :
        /\ game.bags[i].red <= actual.red
        /\ game.bags[i].green <= actual.green
        /\ game.bags[i].blue <= actual.blue

\* Game::power: the product of the largest red, green and blue of the bags
MaxOver(game, n, colour) ==
    LET vs == {game.bags[i][colour] : i \in 1..n} \cup {0}
    IN  CHOOSE m \in vs : \A v \in vs : v <= m
GamePower(game) ==
    MaxOver(game, Len(game.bags), "red") * MaxOver(game, Len(game.bags), "green")
      * MaxOver(game, Len(game.bags), "blue")

RECURSIVE SumOfPossibleGameIds(_, _, _)
SumOfPossibleGameIds(gs, actual, n) ==
    IF n = 0 THEN 0
    ELSE SumOfPossibleGameIds(gs, actual, n - 1)
           + (IF IsPossible(gs[n], actual) THEN gs[n].id ELSE 0)
RECURSIVE SumOfPower(_, _)
SumOfPower(gs, n) == IF n = 0 THEN 0 ELSE SumOfPower(gs, n - 1) + GamePower(gs[n])

\* let actual = Bag(Red(12), Green(13), Blue(14))
ActualBag == Bag(12, 13, 14)

\* ---- the inputs

MaxTokens2 == 2
MaxDraws2 == 2
MaxGames2 == 1

\* The tokens of a draw: three of the expected form, one with more cubes than
\* the actual bag, and three that are not of the form
Tokens2 ==
    { <<"3">> \o RedWord, <<"4">> \o GreenWord, <<"2">> \o BlueWord,
      <<"2", "0">> \o RedWord,
      <<"3", " ", "p", "u", "r", "p", "l", "e">>,
      <<"r", "e", "d">>,
      <<"x", "5">> \o BlueWord \o <<"s">> }
\* The beginnings of a line: two "Game <id>: " and one that is none
Headers2 ==
    { GameWord \o <<"1">> \o ColonSpace, GameWord \o <<"1", "2">> \o ColonSpace,
      <<"G", "a", "m", "e", ":", " ">> }

RECURSIVE JoinStr(_, _, _)
JoinStr(pieces, sep, n) ==
    IF n = 1 THEN pieces[1] ELSE JoinStr(pieces, sep, n - 1) \o sep \o pieces[n]
Draws2 ==
    UNION {{JoinStr(ts, CommaSpace, k) : ts \in [1..k -> Tokens2]} : k \in 1..MaxTokens2}
Lines2 ==
    UNION {{h \o JoinStr(ds, SemiSpace, k) : h \in Headers2, ds \in [1..k -> Draws2]} :
             k \in 1..MaxDraws2}

rest02 == <<varsMain, vars05, vars04, vars07, vars01, vars11, vars08,
            vars09, vars15, vars03, vars06, varsRuns, varsMin, vars14,
            vars13, vars16>>

Init02 ==
    /\ \E n \in 1..MaxGames2 : lines2 \in [1..n -> Lines2]
    /\ games2 = << >>
    /\ part1_2 = << >>
    /\ part2_2 = << >>
    /\ pc2 = "input"

\* input.parse::<Games>()?
ParseGames ==
    /\ pc2 = "input"
    /\ games2' = GamesFromStr(lines2)
    /\ pc2' = IF games2' = << >> THEN "error" ELSE "parsed"
    /\ UNCHANGED <<lines2, part1_2, part2_2, rest02>>

\* games.sum_of_possible_game_ids(&actual)
SumPossible ==
    /\ pc2 = "parsed"
    /\ part1_2' = <<SumOfPossibleGameIds(games2[1], ActualBag, Len(games2[1]))>>
    /\ pc2' = "part1"
    /\ UNCHANGED <<lines2, games2, part2_2, rest02>>

\* games.sum_of_power()
SumPower2 ==
    /\ pc2 = "part1"
    /\ part2_2' = <<SumOfPower(games2[1], Len(games2[1]))>>
    /\ pc2' = "part2"
    /\ UNCHANGED <<lines2, games2, part1_2, rest02>>

InitDay02 == Init02 /\ IdleMain /\ Idle05 /\ Idle04 /\ Idle07 /\ Idle01
             /\ Idle11 /\ Idle08 /\ Idle09 /\ Idle15 /\ Idle03 /\ Idle06
             /\ IdleRuns /\ IdleMin /\ Idle14 /\ Idle13 /\ Idle16
NextDay02 == ParseGames \/ SumPossible \/ SumPower2
SpecDay02 == InitDay02 /\ [][NextDay02]_vars

(***************************************************************************)
(* C22: a draw with an unexpected token                                    *)
(***************************************************************************)

\* piece is "<n> red", "<n> green" or "<n> blue" and nothing else
ExpectedToken(piece) ==
    \E w \in {RedWord, GreenWord, BlueWord} :
        /\ Len(piece) > Len(w)
        /\ DigitsEnd(piece, 1) = Len(piece) - Len(w)
        /\ SubSeq(piece, DigitsEnd(piece, 1) + 1, Len(piece)) = w

\* txt begins like a game line and one of its draws has a token that is not
\* of the expected form
HasUnexpectedToken(txt) ==
    LET e == DigitsEnd(txt, Len(GameWord) + 1)
    IN  /\ StartsWith(txt, GameWord)
        /\ e >= Len(GameWord) + 1
        /\ StartsWith(SubSeq(txt, e + 1, Len(txt)), ColonSpace)
        /\ LET draws == SplitStr(SubSeq(txt, e + 1 + Len(ColonSpace), Len(txt)), SemiSpace)
           IN  \E i \in DOMAIN draws :
                  LET pieces == SplitStr(draws[i], CommaSpace)
                  IN  \E j \in DOMAIN pieces : ~ ExpectedToken(pieces[j])

\* C22: when a line of the input has a draw with a token that is not
\* "<n> red", "<n> green" or "<n> blue", parsing fails and the day stops with
\* the error; no games are produced.
C22_UnexpectedTokenRejected ==
    (pc2 # "input" /\ \E i \in DOMAIN lines2 : HasUnexpectedToken(lines2[i]))
        => (pc2 = "error" /\ games2 = << >>)

(***************************************************************************)
(* day13.rs: reflection lines with one smudge                              *)
(***************************************************************************)

Ash  == "."
Rock == "#"

\* What the tests give: "true", "false", or "assertion failed".  What the
\* searches give: Some(mid) as <<mid>>, None as << >>, and <<-1>> when an
\* assertion of a test failed
AssertFailed13 == <<-1>>
SomeMid(mid) == <<mid>>
NoMid == << >>

PatternRows(g) == Len(g)
PatternCols(g) == Len(g[1])

\* different == 1, the value of both tests after their loop
AtMostOne(different) == different <= 1
ExactlyOne(different) == different = 1

\* The loop `for i in 0..len` of is_vertical_reflection_line_at from pass i
\* on: the rows in which columns ub1 and lb2 differ are counted
RECURSIVE VerticalWindows(_, _, _, _, _, _)
VerticalWindows(g, len, i, ub1, lb2, different) ==
    IF i >= len THEN IF ExactlyOne(different) THEN "true" ELSE "false"
    ELSE IF PatternRows(g) > 0
            /\ ~ (0 <= ub1 /\ lb2 <= PatternCols(g) - 1
                  /\ ub1 < PatternCols(g) /\ lb2 < PatternCols(g))
    THEN "assertion failed"
    ELSE LET different_across_rows ==
                 Cardinality({row \in 1..PatternRows(g) : g[row][ub1 + 1] # g[row][lb2 + 1]})
             different1 == IF different_across_rows = 1 THEN different + 1 ELSE different
         IN  IF different_across_rows > 1 THEN "false"
             ELSE IF different1 > 1 THEN "false"
             ELSE IF ~ (ub1 > 0 \/ i = len - 1) THEN "assertion failed"
             ELSE VerticalWindows(g, len, i + 1, SaturatingSub1(ub1), lb2 + 1, different1)

\* The loop of is_horizontal_reflection_line_at from pass i on: the columns
\* in which rows ub1 and lb2 differ are counted, up to the second
RECURSIVE HorizontalWindows(_, _, _, _, _, _)
HorizontalWindows(g, len, i, ub1, lb2, different) ==
    IF i >= len THEN IF ExactlyOne(different) THEN "true" ELSE "false"
    ELSE IF PatternCols(g) > 0
            /\ ~ (0 <= ub1 /\ lb2 <= PatternRows(g) - 1
                  /\ ub1 < PatternRows(g) /\ lb2 < PatternRows(g))
    THEN "assertion failed"
    ELSE LET different_across_cols ==
                 Cardinality({col \in 1..PatternCols(g) : g[ub1 + 1][col] # g[lb2 + 1][col]})
             different1 == IF different_across_cols = 1 THEN different + 1 ELSE different
         IN  IF different_across_cols > 1 THEN "false"
             ELSE IF different1 > 1 THEN "false"
             ELSE IF ~ (ub1 > 0 \/ i = len - 1) THEN "assertion failed"
             ELSE HorizontalWindows(g, len, i + 1, SaturatingSub1(ub1), lb2 + 1, different1)

\* usize::min(mid - lb + 1, ub - (mid + 1) + 1) with lb = 0
WindowLen(mid, ub) == IF mid + 1 <= ub - (mid + 1) + 1 THEN mid + 1 ELSE ub - (mid + 1) + 1

is_vertical_reflection_line_at(g, mid) ==
    LET ub == PatternCols(g) - 1
    IN  IF ~ (0 <= mid /\ mid < ub) \/ ~ (ub >= 1) THEN "assertion failed"
        ELSE VerticalWindows(g, WindowLen(mid, ub), 0, mid, mid + 1, 0)

is_horizontal_reflection_line_at(g, mid) ==
    LET ub == PatternRows(g) - 1
    IN  IF ~ (0 <= mid /\ mid < ub) \/ ~ (ub >= 1) THEN "assertion failed"
        ELSE HorizontalWindows(g, WindowLen(mid, ub), 0, mid, mid + 1, 0)

\* vertical_reflection_line(lb, ub): the line at the middle, else one of the
\* upper half, else one of the lower half
RECURSIVE vertical_reflection_line(_, _, _)
vertical_reflection_line(g, lb, ub) ==
    IF lb >= ub THEN NoMid
    ELSE LET mid == (lb + ub) \div 2
             at  == is_vertical_reflection_line_at(g, mid)
         IN  IF at = "assertion failed" THEN AssertFailed13
             ELSE IF at = "true" THEN SomeMid(mid)
             ELSE LET upper == vertical_reflection_line(g, mid + 1, ub)
                  IN  IF upper # NoMid THEN upper
                      ELSE vertical_reflection_line(g, lb, mid)

RECURSIVE horizontal_reflection_line(_, _, _)
horizontal_reflection_line(g, lb, ub) ==
    IF lb = ub THEN NoMid
    ELSE LET mid == (lb + ub) \div 2
             at  == is_horizontal_reflection_line_at(g, mid)
         IN  IF at = "assertion failed" THEN AssertFailed13
             ELSE IF at = "true" THEN SomeMid(mid)
             ELSE LET upper == horizontal_reflection_line(g, mid + 1, ub)
                  IN  IF upper # NoMid THEN upper
                      ELSE horizontal_reflection_line(g, lb, mid)

vertical_line(g) == vertical_reflection_line(g, 0, PatternCols(g) - 1)
horizontal_line(g) == horizontal_reflection_line(g, 0, PatternRows(g) - 1)

\* The patterns tried: every pattern of at most MaxSide13 rows and columns
\* and at most MaxCells13 cells
MaxSide13 == 4
MaxCells13 == 12
Shapes13 == {s \in (1..MaxSide13) \X (1..MaxSide13) : s[1] * s[2] <= MaxCells13}

rest13 == <<varsMain, vars05, vars04, vars07, vars01, vars11, vars08,
            vars09, vars15, vars03, vars06, varsRuns, varsMin, vars14,
            vars02, vars16>>

Init13 ==
    /\ \E s \in Shapes13 : pattern13 \in [1..s[1] -> [1..s[2] -> {Ash, Rock}]]
    /\ tested13 = << >>
    /\ vline13 = << >>
    /\ hline13 = << >>
    /\ sum13 = 0
    /\ pc13 = "parsed"

\* pattern.is_vertical_reflection_line_at(mid), for a mid the function asks for
IsVerticalAt ==
    /\ pc13 = "parsed"
    /\ \E mid \in 0..(PatternCols(pattern13) - 2) :
          tested13' = <<"vertical", mid, is_vertical_reflection_line_at(pattern13, mid)>>
    /\ pc13' = "tested"
    /\ UNCHANGED <<pattern13, vline13, hline13, sum13, rest13>>

\* pattern.is_horizontal_reflection_line_at(mid)
IsHorizontalAt ==
    /\ pc13 = "parsed"
    /\ \E mid \in 0..(PatternRows(pattern13) - 2) :
          tested13' = <<"horizontal", mid, is_horizontal_reflection_line_at(pattern13, mid)>>
    /\ pc13' = "tested"
    /\ UNCHANGED <<pattern13, vline13, hline13, sum13, rest13>>

\* if let Some(mid) = pattern.vertical_line() { sum += mid + 1 }
VerticalLine ==
    /\ pc13 = "parsed"
    /\ \E res \in {vertical_line(pattern13)} :
          IF res = AssertFailed13
          THEN pc13' = "panic" /\ UNCHANGED <<vline13, sum13>>
          ELSE /\ vline13' = <<res>>
               /\ sum13' = IF res = NoMid THEN sum13 ELSE sum13 + res[1] + 1
               /\ pc13' = "vertical"
    /\ UNCHANGED <<pattern13, tested13, hline13, rest13>>

\* if let Some(mid) = pattern.horizontal_line() { sum += 100 * (mid + 1) }
HorizontalLine ==
    /\ pc13 = "vertical"
    /\ \E res \in {horizontal_line(pattern13)} :
          IF res = AssertFailed13
          THEN pc13' = "panic" /\ UNCHANGED <<hline13, sum13>>
          ELSE /\ hline13' = <<res>>
               /\ sum13' = IF res = NoMid THEN sum13 ELSE sum13 + 100 * (res[1] + 1)
               /\ pc13' = "horizontal"
    /\ UNCHANGED <<pattern13, tested13, vline13, rest13>>

InitDay13 == Init13 /\ IdleMain /\ Idle05 /\ Idle04 /\ Idle07 /\ Idle01
             /\ Idle11 /\ Idle08 /\ Idle09 /\ Idle15 /\ Idle03 /\ Idle06
             /\ IdleRuns /\ IdleMin /\ Idle14 /\ Idle02 /\ Idle16
NextDay13 == IsVerticalAt \/ IsHorizontalAt \/ VerticalLine \/ HorizontalLine
SpecDay13 == InitDay13 /\ [][NextDay13]_vars

(***************************************************************************)
(* C24: the smudged reflection test and the search for a line              *)
(***************************************************************************)

\* The cells in which the pattern differs from its mirror image in the line
\* between mid and mid + 1 (counted from 0), out to the nearer edge
VerticalDifferences(g, mid) ==
    {<<row, k>> \in (1..PatternRows(g)) \X (0..(PatternCols(g) - 1)) :
        /\ mid - k >= 0 /\ mid + 1 + k <= PatternCols(g) - 1
        /\ g[row][mid - k + 1] # g[row][mid + 1 + k + 1]}
HorizontalDifferences(g, mid) ==
    {<<k, col>> \in (0..(PatternRows(g) - 1)) \X (1..PatternCols(g)) :
        /\ mid - k >= 0 /\ mid + 1 + k <= PatternRows(g) - 1
        /\ g[mid - k + 1][col] # g[mid + 1 + k + 1][col]}

EmptyTile          == "."
RightMirror        == "/"
LeftMirror         == "\\"
VerticalSplitter   == "|"
HorizontalSplitter == "-"
Entries16 == {EmptyTile, RightMirror, LeftMirror, VerticalSplitter, HorizontalSplitter}

Directions == {"Up", "Down", "Left", "Right"}

\* The arguments of the call of traverse one step on in direction dir
Step16(row, col, dir) ==
    CASE dir = "Up"    -> <<row - 1, col, dir>>
      [] dir = "Down"  -> <<row + 1, col, dir>>
      [] dir = "Left"  -> <<row, col - 1, dir>>
      [] dir = "Right" -> <<row, col + 1, dir>>

\* match (dir, entry): the directions of the calls an arm makes, in order
Turns(dir, entry) ==
    CASE entry = EmptyTile -> <<dir>>
      [] entry = VerticalSplitter ->
           IF dir \in {"Up", "Down"} THEN <<dir>> ELSE <<"Up", "Down">>
      [] entry = HorizontalSplitter ->
           IF dir \in {"Left", "Right"} THEN <<dir>> ELSE <<"Left", "Right">>
      [] entry = LeftMirror ->
           (CASE dir = "Up" -> <<"Left">> [] dir = "Right" -> <<"Down">>
              [] dir = "Down" -> <<"Right">> [] dir = "Left" -> <<"Up">>)
      [] entry = RightMirror ->
           (CASE dir = "Up" -> <<"Right">> [] dir = "Right" -> <<"Up">>
              [] dir = "Down" -> <<"Left">> [] dir = "Left" -> <<"Down">>)

\* row < 0 || col < 0 || row >= rows || col >= cols
Outside(g, row, col) == row < 0 \/ col < 0 \/ row >= Len(g) \/ col >= Len(g[1])

\* cached_entry.contains(&dir), after visited.entry((row, col)).or_default()
CellVisited(vis, cell, dir) == cell \in DOMAIN vis
AlreadyVisited(vis, cell, dir) == cell \in DOMAIN vis /\ dir \in vis[cell]

\* cached_entry.insert(dir)
Insert16(vis, cell, dir) ==
    [c \in DOMAIN vis \cup {cell} |->
        IF c = cell THEN (IF cell \in DOMAIN vis THEN vis[cell] ELSE {}) \cup {dir}
        ELSE vis[c]]

\* Traverse::energized
Energized(vis) == Cardinality({c \in DOMAIN vis : vis[c] # {}})

\* The grids tried: every grid of at most MaxSide16 rows and columns and at
\* most MaxCells16 cells, with every start in the grid, and the example grid
\* of the puzzle with the start of part1, on which test_with_sample expects 46
MaxSide16 == 2
MaxCells16 == 4
Shapes16 == {s \in (1..MaxSide16) \X (1..MaxSide16) : s[1] * s[2] <= MaxCells16}
ExampleGrid16 ==
    << <<".", "|", ".", ".", ".", "\\", ".", ".", ".", ".">>,
       <<"|", ".", "-", ".", "\\", ".", ".", ".", ".", ".">>,
       <<".", ".", ".", ".", ".", "|", "-", ".", ".", ".">>,
       <<".", ".", ".", ".", ".", ".", ".", ".", "|", ".">>,
       <<".", ".", ".", ".", ".", ".", ".", ".", ".", ".">>,
       <<".", ".", ".", ".", ".", ".", ".", ".", ".", "\\">>,
       <<".", ".", ".", ".", "/", ".", "\\", "\\", ".", ".">>,
       <<".", "-", ".", "-", "/", ".", ".", "|", ".", ".">>,
       <<".", "|", ".", ".", ".", ".", "-", "|", ".", "\\">>,
       <<".", ".", "/", "/", ".", "|", ".", ".", ".", ".">> >>
ExampleEnergized == 46

rest16 == <<varsMain, vars05, vars04, vars07, vars01, vars11, vars08,
            vars09, vars15, vars03, vars06, varsRuns, varsMin, vars14,
            vars02, vars13>>

Init16 ==
    /\ \/ \E s \in Shapes16 : grid16 \in [1..s[1] -> [1..s[2] -> Entries16]]
       \/ grid16 = ExampleGrid16
    /\ start16 = << >>
    /\ pending16 = << >>
    /\ visited16 = << >>
    /\ expanded16 = << >>
    /\ energized16 = << >>
    /\ pc16 = "new"

\* Traverse::new(&grid), then traverser.traverse(row, col, dir)
CallTraverse ==
    /\ pc16 = "new"
    /\ \E row \in 0..(Len(grid16) - 1), col \in 0..(Len(grid16[1]) - 1), dir \in Directions :
          /\ grid16 = ExampleGrid16 => (row = 0 /\ col = 0 /\ dir = "Right")
          /\ start16' = <<row, col, dir>>
          /\ pending16' = << <<row, col, dir>> >>
    /\ pc16' = "traversing"
    /\ UNCHANGED <<grid16, visited16, expanded16, energized16, rest16>>

\* traverse: the base case, outside the grid
TraverseOutside ==
    /\ pc16 = "traversing" /\ pending16 # << >>
    /\ Outside(grid16, Head(pending16)[1], Head(pending16)[2])
    /\ pending16' = Tail(pending16)
    /\ UNCHANGED <<grid16, start16, visited16, expanded16, energized16, pc16, rest16>>

\* traverse: the cell has an entry in visited (or gets an empty one) that
\* holds the direction
TraverseVisited ==
    /\ pc16 = "traversing" /\ pending16 # << >>
    /\ ~ Outside(grid16, Head(pending16)[1], Head(pending16)[2])
    /\ LET c == Head(pending16)
       IN  /\ AlreadyVisited(visited16, <<c[1], c[2]>>, c[3])
    /\ pending16' = Tail(pending16)
    /\ UNCHANGED <<grid16, start16, visited16, expanded16, energized16, pc16, rest16>>

\* traverse: the direction is inserted and the arm of the match makes its
\* one or two calls
TraverseExpand ==
    /\ pc16 = "traversing" /\ pending16 # << >>
    /\ ~ Outside(grid16, Head(pending16)[1], Head(pending16)[2])
    /\ LET c == Head(pending16)
           turns == Turns(c[3], grid16[c[1] + 1][c[2] + 1])
       IN  /\ ~ AlreadyVisited(visited16, <<c[1], c[2]>>, c[3])
           /\ visited16' = Insert16(visited16, <<c[1], c[2]>>, c[3])
           /\ expanded16' = Append(expanded16, c)
           /\ pending16' = [i \in DOMAIN turns |-> Step16(c[1], c[2], turns[i])]
                             \o Tail(pending16)
    /\ UNCHANGED <<grid16, start16, energized16, pc16, rest16>>

\* The outermost call of traverse returns
TraverseReturn ==
    /\ pc16 = "traversing" /\ pending16 = << >>
    /\ pc16' = "traversed"
    /\ UNCHANGED <<grid16, start16, pending16, visited16, expanded16, energized16, rest16>>

\* traverser.energized()
CallEnergized ==
    /\ pc16 = "traversed"
    /\ energized16' = <<Energized(visited16)>>
    /\ pc16' = "energized"
    /\ UNCHANGED <<grid16, start16, pending16, visited16, expanded16, rest16>>

InitDay16 == Init16 /\ IdleMain /\ Idle05 /\ Idle04 /\ Idle07 /\ Idle01
             /\ Idle11 /\ Idle08 /\ Idle09 /\ Idle15 /\ Idle03 /\ Idle06
             /\ IdleRuns /\ IdleMin /\ Idle14 /\ Idle02 /\ Idle13
NextDay16 == CallTraverse \/ TraverseOutside \/ TraverseVisited \/ TraverseExpand
             \/ TraverseReturn \/ CallEnergized
SpecDay16 == InitDay16 /\ [][NextDay16]_vars
LiveDay16 ==
    InitDay16 /\ [][NextDay16]_vars
    /\ WF_vars(TraverseOutside) /\ WF_vars(TraverseVisited) /\ WF_vars(TraverseExpand)
    /\ WF_vars(TraverseReturn)

(***************************************************************************)
(* C28: the traversal ends, and what it has recorded                       *)
(***************************************************************************)

\* The <<row, col, dir>> a beam from the start gets to inside the grid: the
\* least set that holds the start and, with a member, the members one step on
\* after the turns of its cell
BeamNext(g, b) ==
    {Step16(b[1], b[2], Turns(b[3], g[b[1] + 1][b[2] + 1])[i]) :
        i \in DOMAIN Turns(b[3], g[b[1] + 1][b[2] + 1])}
RECURSIVE BeamClosure(_, _)
BeamClosure(g, beams) ==
    LET more == beams \cup {n \in UNION {BeamNext(g, b) : b \in beams} :
                               ~ Outside(g, n[1], n[2])}
    IN  IF more = beams THEN beams ELSE BeamClosure(g, more)
Beams(g, from) == IF Outside(g, from[1], from[2]) THEN {} ELSE BeamClosure(g, {from})

\* C28: from every start, traverse() returns; no <<cell, direction>> is
\* expanded twice; every cell recorded in visited lies in the grid and holds
\* the directions expanded at it; and energized() is the number of cells the
\* beam enters in at least one direction (46 on the example grid).
C28_TraverseTerminates ==
    /\ [](/\ \A i, j \in DOMAIN expanded16 : expanded16[i] = expanded16[j] => i = j
          /\ \A c \in DOMAIN visited16 :
                /\ ~ Outside(grid16, c[1], c[2])
                /\ visited16[c] = {d \in Directions :
                                     \E i \in DOMAIN expanded16 :
                                         expanded16[i] = <<c[1], c[2], d>>}
                /\ visited16[c] # {}
          /\ \A i \in DOMAIN expanded16 : <<expanded16[i][1], expanded16[i][2]>> \in DOMAIN visited16
          /\ pc16 = "energized" =>
                /\ energized16[1] = Cardinality({<<b[1], b[2]>> : b \in Beams(grid16, start16)})
                /\ {expanded16[i] : i \in DOMAIN expanded16} = Beams(grid16, start16)
                /\ grid16 = ExampleGrid16 => energized16[1] = ExampleEnergized)
    /\ (pc16 = "traversing") ~> (pc16 = "traversed")

\* Four mirrors in a ring and a start inside it: the beam comes back to the
\* start cell in the start direction after four cells, the traversal has
\* returned and energized() is 4.
C28_Witness ==
    /\ pc16 = "energized"
    /\ grid16 = << <<RightMirror, LeftMirror>>, <<LeftMirror, RightMirror>> >>
    /\ start16 = <<0, 0, "Up">>
    /\ Len(expanded16) = 4
    /\ energized16 = <<4>>


=============================================================================
